---- MODULE Spec2Model ----
(***************************************************************************)
(* Truth Social client of the eliza agent: the session manager             *)
(* (ClientBase), the action executor and the two poll loops                *)
(* (BaseMonitorClient, SearchClient, NotificationsClient).                 *)
(*                                                                         *)
(* The module holds one specification per component:                       *)
(*   SpecExec    the action executor, one execution per behaviour          *)
(*   SpecAuth    makeAuthenticatedRequest / init / login                   *)
(*   SpecFeeds   one poll loop with the dedup ledger and the watermark     *)
(*   SpecPost    the post scheduler (PostClient) and its outbox            *)
(*   SpecLogin   one run of login() from any session state                 *)
(*   SpecShared  several client instances on the static session fields    *)
(*   SpecLife    start and stop of the two monitors                        *)
(* Variables of the other components stay unchanged in each of them.       *)
(***************************************************************************)
EXTENDS Integers, Sequences, FiniteSets, TLC

VARIABLES
    \* ---- action executor (one execution) ----
    exPc,        \* "idle" | "done"
    exInput,     \* the item and the requested action set of the execution
    exResult,    \* what the execution did (attempts, requests, applied tags)
    \* ---- session manager ----
    authToken,   \* ClientBase.authToken (static): NullToken or a token
    tokenCache,  \* cacheManager entry truthsocial/<username>/token, NullToken if none
    registered,  \* ClientBase._truthSocialClients[username] is set
    nextToken,   \* the number of the next token the password grant will issue
    browser,     \* ClientBase.browser (static) is set
    config,      \* TRUTHSOCIAL_RETRY_LIMIT and whether cookies + token are supplied
    rq,          \* the makeAuthenticatedRequest call in progress
    \* ---- poll loops ----
    started,           \* the monitor clients whose timers run in this behaviour
    contentOf,         \* the platform's statuses: status id -> kind of body
    isProcessing,      \* BaseMonitorClient.isProcessing, per monitor client
    processedItems,    \* BaseMonitorClient.processedItems, per monitor client
    memory,            \* messageManager: the memory keys that hold a record
    lastCheckedNotificationId,  \* NotificationsClient field, 0 is undefined
    lastCheckedPosts,  \* SearchClient.lastCheckedPosts: user -> id, 0 is absent
    actedOnPosts,      \* SearchClient.actedOnPosts
    batch,             \* per client: fetched items still to be processed
    iter,              \* per client: the iteration in progress and what it did so far
    hist,              \* history: ticks, restarts, executor invocations
    \* ---- post scheduler ----
    postConfig,        \* POST_IMMEDIATELY and whether the intervals give a timer
    isPosting,         \* PostClient.isPosting
    postQueue,         \* PostClient.postQueue: the outbox, head first
    postInterval,      \* PostClient.postInterval: a timer handle, 0 is undefined
    timers,            \* the timer handles that have not been cleared
    calls,             \* the startPostingLoop calls and timer callbacks in progress
    postHist,          \* history: posts made, in order; counts of calls
    \* ---- one login() ----
    lgPc,              \* "idle" | "done"
    lgInput,           \* the session fields login() starts from and the answers it gets
    lgResult,          \* what login() left behind and the requests it sent
    \* ---- several clients on the static session fields ----
    accountOf,         \* config.TRUTHSOCIAL_USERNAME of each client instance
    sharedAuthToken,   \* ClientBase.authToken (static): the account it was issued for
    clientsRegistry,   \* ClientBase._truthSocialClients: the usernames registered
    cachedAccounts,    \* the usernames with a token in the cache
    comp,              \* per client instance: the call in progress
    carried,           \* history: <<account of the sender, account of the token sent>>
    \* ---- start and stop of the monitors ----
    tsStart,           \* TruthSocialClient.start(): the monitor whose start() it awaits
    monitor,           \* per monitor client: timer handle, guard, iteration in progress
    lifeHist,          \* history: timer ticks
    \* ---- both feeds of one process on ids that notifications and statuses share ----
    dd                 \* the dedup state of the two monitors and what the platform received

exVars == <<exPc, exInput, exResult>>
authVars == <<authToken, tokenCache, registered, nextToken, browser, config, rq>>
feedVars == <<started, contentOf, isProcessing, processedItems, memory, lastCheckedNotificationId,
              lastCheckedPosts, actedOnPosts, batch, iter, hist>>
postVars == <<postConfig, isPosting, postQueue, postInterval, timers, calls, postHist>>
loginVars == <<lgPc, lgInput, lgResult>>
shareVars == <<accountOf, sharedAuthToken, clientsRegistry, cachedAccounts, comp, carried>>
lifeVars == <<tsStart, monitor, lifeHist>>
ddVars == <<dd>>
vars == <<exVars, authVars, feedVars, postVars, loginVars, shareVars, lifeVars, ddVars>>

(***************************************************************************)
(* Errors and their classification                                         *)
(***************************************************************************)

\* An HTTP response as page.evaluate returns it to makeAuthenticatedRequest:
\* status 0 is the fetch-error branch; body names what the parsed body holds.
BodyKinds == {"json", "GROUP_NOT_FOUND", "You cannot post to this group"}
Response(status, body) == [ok |-> status = 200, status |-> status, body |-> body]

\* The object thrown by makeAuthenticatedRequest for a non-2xx, non-401
\* response: new Error(`Request failed: ${status} ${JSON.stringify(data)}`).
\* A plain Error carries no `response` property; its message embeds the body.
RequestFailedError(response) ==
    [response |-> [defined |-> FALSE, status |-> 0, error_code |-> ""],
     message  |-> IF response.body = "json" THEN {} ELSE {response.body}]

\* The literal {} that handlePostActions passes to isGroupError.
EmptyObject ==
    [response |-> [defined |-> FALSE, status |-> 0, error_code |-> ""],
     message  |-> {}]

\* A variant that classifies by the message alone, without error.response.
isGroupErrorByMessage(error) ==
    \/ "GROUP_NOT_FOUND" \in error.message
    \/ "You cannot post to this group" \in error.message

isGroupError(error) ==
    /\ error.response.defined
    /\ error.response.status = 404
    /\ \/ error.response.error_code = "GROUP_NOT_FOUND"
       \/ "GROUP_NOT_FOUND" \in error.message
       \/ "You cannot post to this group" \in error.message

(***************************************************************************)
(* Content generation and memory storage as the executor sees them         *)
(***************************************************************************)

\* What a post body is to the text transforms: "text" survives trimming and
\* cleaning, "blank" is empty or whitespace, "markup" is non-blank but cleans
\* to the empty string.
ContentKinds == {"text", "blank", "markup"}

\* What the model call returned: usable text, the empty string, whitespace
\* only, an exception, or text that holds a refusal phrase: one that both
\* generators list, written as listed ("refusal") or in another letter case
\* ("refusal_cased"), or one that only BaseMonitorClient lists
\* ("refusal_long").
GenKinds == {"text", "empty", "blank", "refusal", "refusal_cased", "refusal_long", "throw"}

\* The phrase of the lists a response holds.
Phrase(gen) ==
    CASE gen \in {"refusal", "refusal_cased"} -> "common"
      [] gen = "refusal_long" -> "base_only"
      [] OTHER -> "none"

\* moderationPhrases of BaseMonitorClient.generateContent (32 phrases) and
\* of SearchClient.generateContent (its first 11).
BaseModerationPhrases == {"common", "base_only"}
SearchModerationPhrases == {"common"}

\* A test that compares the phrases as they are written.
hasModerationAsWritten(phrases, gen) == Phrase(gen) \in phrases /\ gen # "refusal_cased"

\* moderationPhrases.some(phrase =>
\*     response.toLowerCase().includes(phrase.toLowerCase()))
hasModeration(phrases, gen) == Phrase(gen) \in phrases

\* processContent: the cleaned text, "" when nothing is left.
processContent(content) == IF content = "text" THEN "text" ELSE ""

\* BaseMonitorClient.generateContent: null unless the post body and the
\* response both survive trim() and the response holds no denylist phrase.
BaseGenerateContent(content, gen) ==
    IF content = "blank" THEN "null"
    ELSE IF processContent(content) = "" THEN "null"
    ELSE IF gen \in {"throw", "empty", "blank"} THEN "null"
    ELSE IF hasModeration(BaseModerationPhrases, gen) THEN "null"
    ELSE "text"

\* SearchClient.generateContent: tests `if (response)`, so a whitespace-only
\* response is returned as it is.
SearchGenerateContent(gen) ==
    IF gen \in {"throw", "empty"} THEN "null"
    ELSE IF hasModeration(SearchModerationPhrases, gen) THEN "null"
    ELSE IF gen = "blank" THEN "blank"
    ELSE "text"

storeInMemory(content, create) ==
    IF content = "blank" THEN "skipped"
    ELSE IF processContent(content) = "" THEN "skipped"
    ELSE IF create = "throw" THEN "threw"
    ELSE "stored"

(***************************************************************************)
(* The action executor                                                     *)
(***************************************************************************)

SeqIf(cond, x) == IF cond THEN <<x>> ELSE <<>>

\* SearchClient.handlePostActions (the override used by the timeline feed).
\* o gives the platform's final answer to each request and the model's output.
SearchHandlePostActions(req, o) ==
    LET favTry    == req.favourite
        favOk     == favTry /\ o.favourite.ok
        favGroup  == favTry /\ ~favOk /\ isGroupError(RequestFailedError(o.favourite))
        rebTry    == req.reblog /\ ~favGroup
        rebOk     == rebTry /\ o.reblog.ok
        rebGroup  == rebTry /\ ~rebOk /\ isGroupError(RequestFailedError(o.reblog))
        isGroupPost == favGroup \/ rebGroup
        quoteTry  == ~isGroupPost /\ req.quote
        quoteText == SearchGenerateContent(o.genQuote)
        quoteReq  == quoteTry /\ quoteText # "null"
        quoteOk   == quoteReq /\ o.quote.ok
        replyTry  == ~isGroupPost /\ req.reply
        replyText == SearchGenerateContent(o.genReply)
        replyReq  == replyTry /\ replyText # "null"
        replyOk   == replyReq /\ o.reply.ok
    IN  [attempts |-> SeqIf(favTry, "FAVOURITE") \o SeqIf(rebTry, "REBLOG")
                      \o SeqIf(quoteTry, "QUOTE") \o SeqIf(replyTry, "REPLY"),
         requests |-> SeqIf(favTry, "favourite") \o SeqIf(rebTry, "reblog")
                      \o SeqIf(quoteReq, "status_quote") \o SeqIf(replyReq, "status_reply"),
         executedActions |-> SeqIf(favOk, "FAVOURITE") \o SeqIf(rebOk, "REBLOG")
                      \o SeqIf(quoteOk, "QUOTE") \o SeqIf(replyOk, "REPLY"),
         stored   |-> <<>>,
         threw    |-> FALSE]

\* BaseMonitorClient.handlePostActions with handleFavourite, handleReblog,
\* handleQuote and handleReply (used for the status of a notification).
\* The handlers swallow the error and return false or null, so the caller
\* classifies the literal {}.  A throwing storeInMemory ends the call.
BaseHandlePostActions(req, content, o) ==
    LET origStore == storeInMemory(content, o.storeOrig)
        alive0    == origStore # "threw"
        favTry    == alive0 /\ req.favourite
        favOk     == favTry /\ o.favourite.ok
        favGroup  == favTry /\ ~favOk /\ isGroupError(EmptyObject)
        rebTry    == alive0 /\ req.reblog /\ ~favGroup
        rebOk     == rebTry /\ o.reblog.ok
        rebGroup  == rebTry /\ ~rebOk /\ isGroupError(EmptyObject)
        isGroupPost == favGroup \/ rebGroup
        quoteTry  == alive0 /\ ~isGroupPost /\ req.quote
        quoteText == BaseGenerateContent(content, o.genQuote)
        quoteReq  == quoteTry /\ quoteText # "null"
        quoteOk   == quoteReq /\ o.quote.ok
        quoteStore == IF quoteOk THEN storeInMemory(quoteText, o.storeQuote) ELSE "none"
        alive1    == alive0 /\ quoteStore # "threw"
        replyTry  == alive1 /\ ~isGroupPost /\ req.reply
        replyText == BaseGenerateContent(content, o.genReply)
        replyReq  == replyTry /\ replyText # "null"
        replyOk   == replyReq /\ o.reply.ok
        replyStore == IF replyOk THEN storeInMemory(replyText, o.storeReply) ELSE "none"
        alive2    == alive1 /\ replyStore # "threw"
    IN  [attempts |-> SeqIf(favTry, "FAVOURITE") \o SeqIf(rebTry, "REBLOG")
                      \o SeqIf(quoteTry, "QUOTE") \o SeqIf(replyTry, "REPLY"),
         requests |-> SeqIf(favTry, "favourite") \o SeqIf(rebTry, "reblog")
                      \o SeqIf(quoteReq, "status_quote") \o SeqIf(replyReq, "status_reply"),
         executedActions |-> SeqIf(favOk, "FAVOURITE") \o SeqIf(rebOk, "REBLOG")
                      \o SeqIf(quoteOk, "QUOTE") \o SeqIf(replyOk, "REPLY"),
         stored   |-> SeqIf(origStore = "stored", "original_post")
                      \o SeqIf(quoteStore = "stored", "quote_response")
                      \o SeqIf(replyStore = "stored", "reply_response"),
         threw    |-> ~alive2]

\* The variant that runs the post actions before the follow-back.
executeNotificationActionsFollowLast(ntype, hasStatus, req, content, o) ==
    LET followTry == ntype = "follow" /\ req.follow_back
        followOk  == followTry /\ o.follow.ok
        post      == BaseHandlePostActions(req, content, o)
    IN  [attempts |-> (IF hasStatus THEN post.attempts ELSE <<>>)
                      \o SeqIf(followTry, "FOLLOW_BACK"),
         requests |-> (IF hasStatus THEN post.requests ELSE <<>>)
                      \o SeqIf(followTry, "follow"),
         executedActions |->
             (IF hasStatus /\ ~post.threw THEN post.executedActions ELSE <<>>)
             \o SeqIf(followOk, "FOLLOW_BACK"),
         stored   |-> IF hasStatus THEN post.stored ELSE <<>>,
         threw    |-> FALSE]

\* NotificationsClient.executeNotificationActions: the follow-back first,
\* then the post actions when the notification carries a status.  An
\* exception of handlePostActions is caught: the tags it had collected are
\* not appended.
executeNotificationActions(ntype, hasStatus, req, content, o) ==
    LET followTry == ntype = "follow" /\ req.follow_back
        followOk  == followTry /\ o.follow.ok
        post      == BaseHandlePostActions(req, content, o)
    IN  [attempts |-> SeqIf(followTry, "FOLLOW_BACK")
                      \o (IF hasStatus THEN post.attempts ELSE <<>>),
         requests |-> SeqIf(followTry, "follow")
                      \o (IF hasStatus THEN post.requests ELSE <<>>),
         executedActions |-> SeqIf(followOk, "FOLLOW_BACK")
                      \o (IF hasStatus /\ ~post.threw THEN post.executedActions ELSE <<>>),
         stored   |-> IF hasStatus THEN post.stored ELSE <<>>,
         threw    |-> FALSE]

(***************************************************************************)
(* SpecExec: one execution of the action executor on one item              *)
(***************************************************************************)

Flags == {"favourite", "reblog", "quote", "reply", "follow_back"}

\* The requested action set (the model's actionResponse), as a record.
Requests == [Flags -> BOOLEAN]

\* Final answers of the platform to a request of the executor, after the
\* session layer has dealt with authentication.
ExecResponses ==
    {Response(200, "json"), Response(404, "GROUP_NOT_FOUND"), Response(500, "json")}

OkResponse == Response(200, "json")

CreateOutcomes == {"ok", "throw"}

\* The default oracle: every request answered 200, every generation usable,
\* every createMemory successful.
DefaultOracle ==
    [favourite |-> OkResponse, reblog |-> OkResponse, quote |-> OkResponse,
     reply |-> OkResponse, follow |-> OkResponse,
     genQuote |-> "text", genReply |-> "text",
     storeOrig |-> "ok", storeQuote |-> "ok", storeReply |-> "ok"]

\* Platform answers and model outputs for one generated action (a quote or
\* a reply): the answer matters only when text was generated, the store of
\* the response only when the answer was 2xx.
TextOptions(requested, withStores) ==
    IF ~requested THEN {[gen |-> "text", resp |-> OkResponse, store |-> "ok"]}
    ELSE { t \in [gen : GenKinds, resp : ExecResponses, store : CreateOutcomes] :
             /\ t.gen \in {"throw", "empty", "refusal", "refusal_cased"}
                   => t.resp = OkResponse
             /\ (~t.resp.ok \/ t.gen \in {"throw", "empty", "refusal", "refusal_cased"}
                   \/ ~withStores)
                   => t.store = "ok" }

\* The oracles that differ from the default only where the requested action
\* set can look at them.  hasPost: the item has a status to act on;
\* withStores: the executor stores records itself (the notification feed).
Oracles(req, hasPost, withStores) ==
    { [favourite |-> fav, reblog |-> reb, quote |-> q.resp, reply |-> r.resp,
       follow |-> fol, genQuote |-> q.gen, genReply |-> r.gen,
       storeOrig |-> so, storeQuote |-> q.store, storeReply |-> r.store] :
        fav \in (IF hasPost /\ req.favourite THEN ExecResponses ELSE {OkResponse}),
        reb \in (IF hasPost /\ req.reblog THEN ExecResponses ELSE {OkResponse}),
        q \in TextOptions(hasPost /\ req.quote, withStores),
        r \in TextOptions(hasPost /\ req.reply, withStores),
        fol \in (IF req.follow_back THEN {OkResponse, Response(500, "json")}
                                    ELSE {OkResponse}),
        so \in (IF hasPost /\ withStores THEN CreateOutcomes ELSE {"ok"}) }

NoResult ==
    [attempts |-> <<>>, requests |-> <<>>, executedActions |-> <<>>,
     stored |-> <<>>, threw |-> FALSE]

ExecInit ==
    /\ exPc = "idle"
    /\ exInput \in
         [kind : {"search"}, ntype : {"post"}, hasStatus : {TRUE},
          req : {r \in Requests : ~r.follow_back}, content : ContentKinds]
         \cup
         [kind : {"notification"}, ntype : {"follow", "mention"},
          hasStatus : BOOLEAN, req : Requests, content : ContentKinds]
    /\ exResult = [res |-> NoResult, o |-> DefaultOracle]

\* processPost -> handlePostActions of the timeline feed.
ExecuteSearch ==
    /\ exPc = "idle"
    /\ exInput.kind = "search"
    /\ \E o \in Oracles(exInput.req, TRUE, FALSE) :
         exResult' = [res |-> SearchHandlePostActions(exInput.req, o), o |-> o]
    /\ exPc' = "done"
    /\ UNCHANGED <<exInput, authVars, feedVars, postVars, loginVars, shareVars, lifeVars, ddVars>>

\* handleNotification -> executeNotificationActions of the notification feed.
ExecuteNotification ==
    /\ exPc = "idle"
    /\ exInput.kind = "notification"
    /\ \E o \in Oracles([exInput.req EXCEPT !.follow_back = @ /\ exInput.ntype = "follow"],
                         exInput.hasStatus, exInput.hasStatus) :
         exResult' = [res |-> executeNotificationActions(exInput.ntype,
                                  exInput.hasStatus, exInput.req, exInput.content, o),
                      o |-> o]
    /\ exPc' = "done"
    /\ UNCHANGED <<exInput, authVars, feedVars, postVars, loginVars, shareVars, lifeVars, ddVars>>

(***************************************************************************)
(* The session manager: login, init, makeAuthenticatedRequest              *)
(***************************************************************************)

\* Largest TRUTHSOCIAL_RETRY_LIMIT the model configures.
MaxRetryLimit == 2
\* Password grants the platform answers with a fresh token.
MaxTokens == 2
\* Sends of one makeAuthenticatedRequest call that the model follows.
MaxSends == 3

NullToken == [src |-> "null", n |-> 0]
EnvToken == [src |-> "env", n |-> 0]
GrantToken(n) == [src |-> "grant", n |-> n]
Tokens == {EnvToken} \cup {GrantToken(n) : n \in 1..MaxTokens}

\* What the platform and the host answer during one login() or one probe.
LoginOracles ==
    [browser : BOOLEAN,        \* puppeteer.launch succeeds when a launch is needed
     envSetup : {"ok", "cookies_throw", "goto_throw"},  \* installing the supplied cookies
     envProbe : BOOLEAN,       \* verify_credentials accepts the supplied token
     cacheRead : {"ok", "undecryptable"},
     cacheProbe : BOOLEAN,     \* verify_credentials accepts the cached token
     grant : {"ok", "rejected", "no_token"},
     cacheWrite : {"ok", "throw"}]

\* A getCachedToken that hands out the blob whatever decrypt does.
getCachedTokenRaw(cache, o) == cache

\* getCachedToken: the cached token, null when absent or not decryptable.
getCachedToken(cache, o) ==
    IF o.cacheRead = "ok" THEN cache ELSE NullToken

\* A validateSession that accepts nothing.
validateSessionNever(token, hasBrowser, probe) == FALSE

\* validateSession with the given token: false without a token or a browser.
validateSession(token, hasBrowser, probe) ==
    token # NullToken /\ hasBrowser /\ probe

\* The supplied cookies and token are taken into use: both are configured
\* and the cookies parse and can be set.
useEnvNever(env, setup) == FALSE
useEnv(env, setup) == env /\ setup # "cookies_throw"

\* login(): supplied cookies + token first, then the cached token, then the
\* password grant.  s is [authToken, tokenCache, browser, nextToken, env].
\* The result tells whether login returned (ok) or threw, the fields it left
\* behind and which requests it sent, in their order (trace).
login(s, o) ==
    LET b1 == s.browser \/ o.browser
        installed == useEnv(s.env, o.envSetup)
        tok1 == IF installed THEN EnvToken ELSE s.authToken
        envProbed == installed /\ o.envSetup = "ok"
        envValid == envProbed /\ validateSession(tok1, b1, o.envProbe)
        cached == getCachedToken(s.tokenCache, o)
        tok2 == IF cached # NullToken THEN cached ELSE tok1
        cacheProbed == ~envValid /\ cached # NullToken
        cacheValid == cacheProbed /\ validateSession(tok2, b1, o.cacheProbe)
        fresh == GrantToken(s.nextToken)
        probes == (IF envProbed THEN <<"env_probe">> ELSE <<>>)
                    \o (IF cacheProbed THEN <<"cache_probe">> ELSE <<>>)
        facts == [env |-> s.env, setup |-> IF s.env THEN o.envSetup ELSE "ok",
                  envOk |-> envValid, cached |-> cached # NullToken, cacheOk |-> cacheValid]
    IN  IF ~b1 THEN
            [ok |-> FALSE, authToken |-> s.authToken, tokenCache |-> s.tokenCache,
             browser |-> FALSE, nextToken |-> s.nextToken, trace |-> <<>>,
             facts |-> [facts EXCEPT !.setup = "ok", !.cached = FALSE]]
        ELSE IF envValid THEN
            [ok |-> TRUE, authToken |-> tok1, tokenCache |-> s.tokenCache,
             browser |-> TRUE, nextToken |-> s.nextToken, trace |-> probes,
             facts |-> [facts EXCEPT !.cached = FALSE]]
        ELSE IF cacheValid THEN
            [ok |-> TRUE, authToken |-> tok2, tokenCache |-> s.tokenCache,
             browser |-> TRUE, nextToken |-> s.nextToken, trace |-> probes, facts |-> facts]
        ELSE IF o.grant = "rejected" THEN
            [ok |-> FALSE, authToken |-> tok2, tokenCache |-> s.tokenCache,
             browser |-> TRUE, nextToken |-> s.nextToken,
             trace |-> Append(probes, "grant"), facts |-> facts]
        ELSE IF o.grant = "no_token" THEN
            [ok |-> FALSE, authToken |-> NullToken, tokenCache |-> s.tokenCache,
             browser |-> TRUE, nextToken |-> s.nextToken,
             trace |-> Append(probes, "grant"), facts |-> facts]
        ELSE IF o.cacheWrite = "throw" THEN
            [ok |-> FALSE, authToken |-> fresh, tokenCache |-> s.tokenCache,
             browser |-> TRUE, nextToken |-> s.nextToken + 1,
             trace |-> Append(probes, "grant"), facts |-> facts]
        ELSE
            [ok |-> TRUE, authToken |-> fresh, tokenCache |-> fresh,
             browser |-> TRUE, nextToken |-> s.nextToken + 1,
             trace |-> Append(probes, "grant"), facts |-> facts]

\* What init() found when it was entered.
NoEntry ==
    [seen |-> FALSE, registered |-> FALSE, cached |-> FALSE, probeOk |-> FALSE,
     unreadable |-> FALSE]

\* if (ClientBase._truthSocialClients[username]) return
existingClientNever(reg) == FALSE
existingClient(reg) == reg

SessionState ==
    [authToken |-> authToken, tokenCache |-> tokenCache, browser |-> browser,
     nextToken |-> nextToken, env |-> config.env]

\* The grant of a fresh token is possible while the model has tokens left.
GrantAllowed(o) == o.grant = "ok" => nextToken <= MaxTokens

\* One oracle for each course login() can take from s: an answer that is not
\* asked for is left at its first value.
Asked(s, o) ==
    LET b1 == s.browser \/ o.browser
        installed == useEnv(s.env, o.envSetup)
        envProbed == b1 /\ installed /\ o.envSetup = "ok"
        envValid == envProbed /\ validateSession(EnvToken, b1, o.envProbe)
        cached == getCachedToken(s.tokenCache, o)
        cacheProbed == b1 /\ ~envValid /\ cached # NullToken
        cacheValid == cacheProbed /\ validateSession(cached, b1, o.cacheProbe)
        granted == b1 /\ ~envValid /\ ~cacheValid
    IN  /\ s.browser => o.browser
        /\ (~s.env \/ ~b1) => o.envSetup = "ok"
        /\ ~envProbed => o.envProbe
        /\ (~b1 \/ envValid) => o.cacheRead = "ok"
        /\ ~cacheProbed => o.cacheProbe
        /\ ~granted => o.grant = "rejected"
        /\ (~granted \/ o.grant # "ok") => o.cacheWrite = "ok"

IdleRq ==
    [pc |-> "idle", caller |-> "none", retries |-> 0, delays |-> <<>>,
     sends |-> 0, logins |-> 0, relogins |-> <<>>,
     carried |-> <<>>, statuses |-> <<>>,
     result |-> "none", errStatus |-> 0,
     attempts |-> <<>>, probed |-> FALSE, granted |-> FALSE,
     entry |-> NoEntry]

AuthInit ==
    /\ authToken = NullToken
    /\ tokenCache \in {NullToken, GrantToken(1)}
    /\ nextToken = IF tokenCache = NullToken THEN 1 ELSE 2
    /\ registered = FALSE
    /\ browser = FALSE
    /\ config \in [retryLimit : 0..MaxRetryLimit, env : BOOLEAN]
    /\ rq = IdleRq

\* A backoff that grows by one second per failure.
Pow2Linear(n) == n

\* Math.pow(2, n)
RECURSIVE Pow2(_)
Pow2(n) == IF n = 0 THEN 1 ELSE 2 * Pow2(n - 1)

\* HTTP statuses the platform answers with; 0 is the fetch-error branch.
Statuses == {200, 401, 404, 500, 0}

\* Where a call continues when init() returns or throws.
AfterInit(r, threw, token) ==
    IF r.caller = "init" THEN
        [r EXCEPT !.pc = "done", !.result = IF threw THEN "error" ELSE "returned"]
    ELSE IF threw THEN [r EXCEPT !.pc = "done", !.result = "error"]
    ELSE IF token = NullToken THEN
        \* "Not authenticated - failed to obtain auth token"
        [r EXCEPT !.pc = "done", !.result = "error"]
    ELSE [r EXCEPT !.pc = "mar_send"]

\* A caller starts init() (TruthSocialClient.init at startup).
StartInit ==
    /\ rq.pc = "idle"
    /\ rq' = [IdleRq EXCEPT !.pc = "init_enter", !.caller = "init"]
    /\ UNCHANGED <<authToken, tokenCache, registered, nextToken, browser, config>>
    /\ UNCHANGED <<exVars, feedVars, postVars, loginVars, shareVars, lifeVars, ddVars>>

\* A caller starts makeAuthenticatedRequest: without a token it runs init().
MarCall ==
    /\ rq.pc = "idle"
    /\ rq' = [IdleRq EXCEPT !.caller = "mar",
                            !.pc = IF authToken = NullToken THEN "init_enter"
                                                            ELSE "mar_send"]
    /\ UNCHANGED <<authToken, tokenCache, registered, nextToken, browser, config>>
    /\ UNCHANGED <<exVars, feedVars, postVars, loginVars, shareVars, lifeVars, ddVars>>

\* init() up to the retry loop: the registry check, then the cached token
\* and its probe.
InitEnter ==
    /\ rq.pc = "init_enter"
    /\ \E o \in LoginOracles :
         /\ o.grant = "rejected" /\ o.cacheWrite = "ok" /\ o.envProbe /\ o.envSetup = "ok"
         /\ LET cached == getCachedToken(tokenCache, o)
                b1 == browser \/ o.browser
                valid == validateSession(cached, b1, o.cacheProbe)
                probed == ~registered /\ cached # NullToken /\ b1
                seen == [rq EXCEPT
                           !.entry = [seen |-> TRUE, registered |-> registered,
                                      cached |-> ~registered /\ cached # NullToken,
                                      probeOk |-> probed /\ o.cacheProbe,
                                      unreadable |-> /\ ~registered
                                                     /\ tokenCache # NullToken
                                                     /\ o.cacheRead = "undecryptable"],
                           !.probed = @ \/ probed]
            IN  IF existingClient(registered) THEN
                    /\ rq' = AfterInit(seen, FALSE, authToken)
                    /\ UNCHANGED <<authToken, registered, browser>>
                ELSE IF cached # NullToken THEN
                    /\ authToken' = cached
                    /\ browser' = b1
                    /\ registered' = (registered \/ valid)
                    /\ rq' = IF valid THEN AfterInit(seen, FALSE, cached)
                             ELSE [seen EXCEPT !.pc = "init_loop",
                                               !.retries = config.retryLimit]
                ELSE
                    /\ rq' = [seen EXCEPT !.pc = "init_loop",
                                          !.retries = config.retryLimit]
                    /\ UNCHANGED <<authToken, registered, browser>>
    /\ UNCHANGED <<tokenCache, nextToken, config>>
    /\ UNCHANGED <<exVars, feedVars, postVars, loginVars, shareVars, lifeVars, ddVars>>

\* What one login() adds to the record of the call.
Logged(r, res) ==
    [r EXCEPT !.logins = @ + 1,
              !.probed = @ \/ \E i \in 1..Len(res.trace) : res.trace[i] # "grant",
              !.granted = @ \/ \E i \in 1..Len(res.trace) : res.trace[i] = "grant"]

\* One turn of init()'s `while (retries > 0)`: a login attempt; on failure
\* the countdown, the final throw or the backoff delay (in seconds).
InitLoop ==
    /\ rq.pc = "init_loop"
    /\ IF rq.retries = 0 THEN
           /\ rq' = AfterInit(rq, FALSE, authToken)
           /\ UNCHANGED <<authToken, tokenCache, registered, nextToken, browser>>
       ELSE
           \E o \in LoginOracles :
             /\ GrantAllowed(o)
             /\ Asked(SessionState, o)
             /\ LET r == login(SessionState, o)
                    left == rq.retries - 1
                    counted == [Logged(rq, r) EXCEPT !.attempts = Append(@, r.ok)]
                IN  /\ authToken' = r.authToken
                    /\ tokenCache' = r.tokenCache
                    /\ browser' = r.browser
                    /\ nextToken' = r.nextToken
                    /\ registered' = (registered \/ r.ok)
                    /\ rq' = IF r.ok THEN AfterInit(counted, FALSE, r.authToken)
                             ELSE IF left = 0 THEN
                                 AfterInit([counted EXCEPT !.retries = 0], TRUE, r.authToken)
                             ELSE [counted EXCEPT
                                     !.retries = left,
                                     !.delays = Append(@, Pow2(config.retryLimit - left))]
    /\ UNCHANGED <<config, exVars, feedVars, postVars, loginVars, shareVars, lifeVars, ddVars>>

\* makeAuthenticatedRequest sends the request with the current token and
\* looks at the answer: 2xx returns the body, 401 goes to the re-login,
\* anything else throws "Request failed".
MarSend ==
    /\ rq.pc = "mar_send"
    /\ rq.sends < MaxSends
    /\ \E launch \in BOOLEAN, status \in Statuses :
         LET b1 == browser \/ launch
         IN  /\ browser' = b1
             /\ rq' = IF ~b1 THEN [rq EXCEPT !.pc = "done", !.result = "error"]
                      ELSE LET sent == [rq EXCEPT !.sends = @ + 1,
                                                  !.carried = Append(@, authToken),
                                                  !.statuses = Append(@, status)]
                           IN  IF status = 200 THEN
                                   [sent EXCEPT !.pc = "done", !.result = "data"]
                               ELSE IF status = 401 THEN
                                   [sent EXCEPT !.pc = "mar_relogin"]
                               ELSE [sent EXCEPT !.pc = "done", !.result = "error",
                                                 !.errStatus = status]
    /\ UNCHANGED <<authToken, tokenCache, registered, nextToken, config>>
    /\ UNCHANGED <<exVars, feedVars, postVars, loginVars, shareVars, lifeVars, ddVars>>

\* After a 401: `await this.login()` and then the call of itself, which
\* starts over at the token check.
MarRelogin ==
    /\ rq.pc = "mar_relogin"
    /\ \E o \in LoginOracles :
         /\ GrantAllowed(o)
         /\ Asked(SessionState, o)
         /\ LET r == login(SessionState, o)
                counted == [Logged(rq, r) EXCEPT
                             !.relogins = Append(@, [ok |-> r.ok, token |-> r.authToken])]
            IN  /\ authToken' = r.authToken
                /\ tokenCache' = r.tokenCache
                /\ browser' = r.browser
                /\ nextToken' = r.nextToken
                /\ rq' = IF ~r.ok THEN
                             [counted EXCEPT !.pc = "done", !.result = "error"]
                         ELSE IF r.authToken = NullToken THEN
                             [counted EXCEPT !.pc = "init_enter"]
                         ELSE [counted EXCEPT !.pc = "mar_send"]
    /\ UNCHANGED <<registered, config>>
    /\ UNCHANGED <<exVars, feedVars, postVars, loginVars, shareVars, lifeVars, ddVars>>

\* The call has returned to its caller; the next call may start.
CallReturns ==
    /\ rq.pc = "done"
    /\ rq' = IdleRq
    /\ UNCHANGED <<authToken, tokenCache, registered, nextToken, browser, config>>
    /\ UNCHANGED <<exVars, feedVars, postVars, loginVars, shareVars, lifeVars, ddVars>>

\* ClientBase.cleanup (static), called between two calls: with a browser it
\* closes it and clears browser, page and token; without one it does
\* nothing.  The registry and the cache are left as they are.
Cleanup ==
    /\ rq.pc = "idle"
    /\ IF browser
       THEN /\ browser' = FALSE
            /\ authToken' = NullToken
       ELSE UNCHANGED <<browser, authToken>>
    /\ rq' = [IdleRq EXCEPT !.caller = "cleanup", !.pc = "done", !.result = "returned"]
    /\ UNCHANGED <<tokenCache, registered, nextToken, config>>
    /\ UNCHANGED <<exVars, feedVars, postVars, loginVars, shareVars, lifeVars, ddVars>>

AuthNext ==
    \/ Cleanup
    \/ StartInit
    \/ MarCall
    \/ InitEnter
    \/ InitLoop
    \/ MarSend
    \/ MarRelogin
    \/ CallReturns

(***************************************************************************)
(* The poll loops and the dedup ledger                                     *)
(***************************************************************************)

\* Notifications the platform holds.
MaxNotif == 2
\* Statuses (posts) the platform holds.
MaxPost == 2
\* Poll iterations followed in one behaviour.
MaxTicks == 2
\* Process restarts followed in one behaviour.
MaxRestarts == 1
\* Target users configured in TRUTHSOCIAL_TARGET_USERS.
MaxUsers == 1

Clients == {"notifications", "search"}
NotifIds == 1..MaxNotif
\* Status ids straddle a change of digit count (9, 10, ...).
StatusIds == 9..(8 + MaxPost)
Users == 1..MaxUsers

\* Memory ids are strings: an item id, or `${id}-quote` / `${id}-reply`.
MemKey(id, tag) == <<id, tag>>
ItemKey(id) == MemKey(id, "")
MemKeys == (NotifIds \cup StatusIds) \X {"", "quote", "reply"}

\* The platform's notifications: notification 1 is a follow (it carries no
\* status), every other one mentions the agent in a status; notifications
\* beyond the number of statuses refer to the first status again.
NotifShape(n) ==
    IF n = 1 THEN [type |-> "follow", status |-> 0]
    ELSE [type |-> "mention",
          status |-> IF n - 1 <= MaxPost THEN 7 + n ELSE 9]

\* Post bodies as the loops tell them apart.
FeedContents == {"text", "blank"}

\* Decimal digits of an id, most significant first (ids are decimal strings).
RECURSIVE Digits(_)
Digits(n) == IF n < 10 THEN <<n>> ELSE Append(Digits(n \div 10), n % 10)

\* JavaScript's a > b on strings: lexicographic by code unit.
RECURSIVE StrGreater(_, _)
StrGreater(a, b) ==
    IF a = <<>> THEN FALSE
    ELSE IF b = <<>> THEN TRUE
    ELSE IF Head(a) # Head(b) THEN Head(a) > Head(b)
    ELSE StrGreater(Tail(a), Tail(b))

\* A loop that takes the fetched list as it came.
ReverseNot(seq) == seq

RECURSIVE Reverse(_)
Reverse(seq) == IF seq = <<>> THEN <<>> ELSE Append(Reverse(Tail(seq)), Head(seq))

Range(seq) == {seq[i] : i \in 1..Len(seq)}

\* Sequences without repetition over a set, up to the set's size.
RECURSIVE Arrangements(_)
Arrangements(S) ==
    {<<>>} \cup UNION {{<<x>> \o rest : rest \in Arrangements(S \ {x})} : x \in S}

IsDescending(seq) == \A i \in 1..(Len(seq) - 1) : seq[i] > seq[i + 1]

\* The requested action sets and platform answers the loops are run with.
NoActions == [f \in Flags |-> FALSE]
SomeActions == [f \in Flags |-> f \in {"favourite", "follow_back"}]
\* One run of the decision and the executor: the requested actions and the
\* outcomes of what the executor then calls.  withStores: the executor
\* stores records itself (the notification feed).
FeedRuns(withStores) ==
    {[req |-> NoActions, o |-> DefaultOracle],
     [req |-> SomeActions, o |-> DefaultOracle],
     [req |-> SomeActions,
      o |-> [DefaultOracle EXCEPT !.favourite = Response(500, "json"),
                                  !.follow = Response(500, "json")]]}
    \cup (IF withStores
          THEN {[req |-> SomeActions, o |-> [DefaultOracle EXCEPT !.storeOrig = "throw"]]}
          ELSE {})
\* createMemory can throw only when storeInMemory reaches it.
CreateOptions(content) ==
    IF storeInMemory(content, "ok") = "stored" THEN CreateOutcomes ELSE {"ok"}

\* The bodies of the platform's posts: all with text, or the oldest one blank
\* (a post that holds media only).
PostBodies ==
    {[s \in StatusIds |-> IF s = 9 THEN c ELSE "text"] : c \in FeedContents}

IdleIter ==
    [pc |-> "idle", user |-> 0, first |-> FALSE, lastKnown |-> 0,
     fetched |-> <<>>, atStart |-> {}, executed |-> {}, created |-> {},
     order |-> <<>>, threw |-> FALSE]

NoExec == [id \in NotifIds |-> 0]

FeedInit ==
    /\ started \in {{"notifications"}, {"search"}}
    /\ contentOf \in PostBodies
    /\ isProcessing = [c \in Clients |-> FALSE]
    /\ processedItems = [c \in Clients |-> {}]
    /\ memory = {}
    /\ lastCheckedNotificationId = 0
    /\ lastCheckedPosts = [u \in Users |-> 0]
    /\ actedOnPosts = {}
    /\ batch = [c \in Clients |-> <<>>]
    /\ iter = [c \in Clients |-> IdleIter]
    /\ hist = [ticks |-> 0, restarts |-> 0, exec |-> NoExec, handledBefore |-> {},
               inflight |-> [c \in Clients |-> 0]]

\* getMemoryById(stringToUuid(id + "-" + agentId)) finds a record.
neverInMemory(mem, id) == FALSE

alreadyInMemory(mem, id) == ItemKey(id) \in mem

\* The memory keys the executor's storeInMemory calls created for a status.
StoredKeys(res, status) ==
    {MemKey(status, IF kind = "original_post" THEN ""
                    ELSE IF kind = "quote_response" THEN "quote" ELSE "reply") :
        kind \in Range(res.stored)}

\* What an iteration did so far: the ids it handed to the executor (as a
\* set and in the order of the calls), the ids whose own record it created,
\* and whether the handling of an item threw.
Note(it, id, exec, outcome) ==
    [it EXCEPT !.executed = IF exec THEN @ \cup {id} ELSE @,
               !.order = IF exec THEN Append(@, id) ELSE @,
               !.created = IF outcome = "stored" THEN @ \cup {id} ELSE @,
               !.threw = @ \/ outcome \in {"decision_threw", "threw"}]



\* Calls of the executor per id in this process: 0, 1, or 2 for "more than once".
CountExec(h, id) == [h EXCEPT !.exec[id] = IF @ < 2 THEN @ + 1 ELSE 2]

\* ---- the notification feed ----

\* A checkItems without the re-entrancy test.
checkItemsNeverSkips(flag) == FALSE

\* checkItems: `if (this.isProcessing) return`, before anything else.
checkItemsSkips(flag) == flag

\* An iteration of the client passes its guard-set point / its guard-clear
\* point: the count of the iterations between the two.
Enter(h, c) == [h EXCEPT !.ticks = @ + 1, !.inflight[c] = @ + 1]
Leave(h, c) == [h EXCEPT !.inflight[c] = @ - 1]

\* An exit of checkItems that leaves the flag as it is.
ReturnKeepsFlag(flags, c) == flags

\* finally { this.isProcessing = false }: runs on every exit of the try
\* block of checkItems, the early return on an empty fetch included.
Finally(flags, c) == [flags EXCEPT ![c] = FALSE]

\* A timer tick that finds the flag set returns at once.
TickBusy ==
    /\ \E c \in started : checkItemsSkips(isProcessing[c])
    /\ hist.ticks < MaxTicks
    /\ hist' = [hist EXCEPT !.ticks = @ + 1]
    /\ UNCHANGED <<started, contentOf, isProcessing, processedItems, memory,
                   lastCheckedNotificationId, lastCheckedPosts, actedOnPosts, batch, iter>>
    /\ UNCHANGED <<exVars, authVars, postVars, loginVars, shareVars, lifeVars, ddVars>>

\* A timer tick (or start()'s initial check) enters checkItems: the guard is
\* set and the fetch is issued.
NotifTick ==
    /\ "notifications" \in started
    /\ ~checkItemsSkips(isProcessing["notifications"])
    /\ hist.ticks < MaxTicks
    /\ isProcessing' = [isProcessing EXCEPT !["notifications"] = TRUE]
    /\ iter' = [iter EXCEPT !["notifications"] =
                  [IdleIter EXCEPT !.pc = "fetching",
                                   !.atStart = processedItems["notifications"] \cup memory]]
    /\ hist' = Enter(hist, "notifications")
    /\ UNCHANGED <<started, contentOf, processedItems, memory, lastCheckedNotificationId,
                   lastCheckedPosts, actedOnPosts, batch>>
    /\ UNCHANGED <<exVars, authVars, postVars, loginVars, shareVars, lifeVars, ddVars>>

\* notification.status?.content || ''
NotifContent(n) ==
    IF NotifShape(n).status = 0 THEN "blank" ELSE contentOf[NotifShape(n).status]

\* fetchNotifications returns (newest first; [] on an error).  An empty
\* result returns at once through `finally`; otherwise the list is reversed.
NotifFetch ==
    /\ iter["notifications"].pc = "fetching"
    /\ \E ids \in {a \in Arrangements(NotifIds) : IsDescending(a)} :
         /\ LET list == [i \in 1..Len(ids) |->
                           [id |-> ids[i], content |-> NotifContent(ids[i])]]
            IN  IF list = <<>> THEN
                    /\ isProcessing' = Finally(isProcessing, "notifications")
                    /\ iter' = [iter EXCEPT !["notifications"] = IdleIter]
                    /\ hist' = Leave(hist, "notifications")
                    /\ UNCHANGED batch
                ELSE
                    /\ batch' = [batch EXCEPT !["notifications"] = Reverse(list)]
                    /\ iter' = [iter EXCEPT !["notifications"].pc = "items",
                                            !["notifications"].fetched = ids]
                    /\ UNCHANGED <<isProcessing, hist>>
    /\ UNCHANGED <<started, contentOf, processedItems, memory, lastCheckedNotificationId,
                   lastCheckedPosts, actedOnPosts>>
    /\ UNCHANGED <<exVars, authVars, postVars, loginVars, shareVars, lifeVars, ddVars>>

\* A loop that an exception of one item's handling ends.
AfterItemAborts(rest, threw) == IF threw THEN <<>> ELSE rest

\* try/catch inside the for loop (and inside processPost): whether the
\* handling of the item threw or not, the loop goes on with the items left.
AfterItem(rest, threw) == rest

\* One turn of the for loop of checkItems: the two dedup checks, then
\* handleNotification (decision, executor, storeNotificationMemory) and the
\* marking; an exception anywhere in the turn is caught and logged.
NotifItem ==
    /\ iter["notifications"].pc = "items"
    /\ batch["notifications"] # <<>>
    /\ LET item == Head(batch["notifications"])
           id == item.id
           shape == NotifShape(id)
           hasStatus == shape.status # 0
           done == processedItems["notifications"]
           rest == Tail(batch["notifications"])
       IN  /\ IF ItemKey(id) \in done THEN
                  /\ iter' = [iter EXCEPT !["notifications"] = Note(@, id, FALSE, "skipped_processed")]
                  /\ batch' = [batch EXCEPT !["notifications"] = AfterItem(rest, FALSE)]
                  /\ UNCHANGED <<processedItems, memory, lastCheckedNotificationId, hist>>
              ELSE IF alreadyInMemory(memory, id) THEN
                  /\ processedItems' = [processedItems EXCEPT !["notifications"] =
                                          @ \cup {ItemKey(id)}]
                  /\ iter' = [iter EXCEPT !["notifications"] = Note(@, id, FALSE, "skipped_memory")]
                  /\ batch' = [batch EXCEPT !["notifications"] = AfterItem(rest, FALSE)]
                  /\ UNCHANGED <<memory, lastCheckedNotificationId, hist>>
              ELSE
                  \/ \* composeState / generateTweetActions throws
                     /\ iter' = [iter EXCEPT !["notifications"] = Note(@, id, FALSE, "decision_threw")]
                     /\ batch' = [batch EXCEPT !["notifications"] = AfterItem(rest, TRUE)]
                     /\ UNCHANGED <<processedItems, memory, lastCheckedNotificationId, hist>>
                  \/ \E run \in FeedRuns(hasStatus), create \in CreateOptions(item.content) :
                       LET res == executeNotificationActions(shape.type, hasStatus,
                                                             run.req, item.content, run.o)
                           execKeys == IF hasStatus THEN StoredKeys(res, shape.status) ELSE {}
                           stored == storeInMemory(item.content, create)
                           ownKey == IF stored = "stored" THEN {ItemKey(id)} ELSE {}
                           marked == IF stored = "threw" THEN {} ELSE {ItemKey(id)}
                       IN  /\ memory' = memory \cup execKeys \cup ownKey
                           /\ processedItems' = [processedItems EXCEPT !["notifications"] =
                                                   @ \cup execKeys \cup ownKey \cup marked]
                           /\ lastCheckedNotificationId' =
                                 IF stored = "threw" THEN lastCheckedNotificationId ELSE id
                           /\ hist' = CountExec(hist, id)
                           /\ iter' = [iter EXCEPT !["notifications"] = Note(@, id, TRUE, stored)]
                           /\ batch' = [batch EXCEPT !["notifications"] =
                                          AfterItem(rest, stored = "threw")]
    /\ UNCHANGED <<started, contentOf, isProcessing, lastCheckedPosts, actedOnPosts>>
    /\ UNCHANGED <<exVars, authVars, postVars, loginVars, shareVars, lifeVars, ddVars>>

\* The for loop is over: `finally` clears the guard.
NotifEnd ==
    /\ iter["notifications"].pc = "items"
    /\ batch["notifications"] = <<>>
    /\ isProcessing' = Finally(isProcessing, "notifications")
    /\ iter' = [iter EXCEPT !["notifications"] = IdleIter]
    /\ hist' = Leave(hist, "notifications")
    /\ UNCHANGED <<started, contentOf, processedItems, memory, lastCheckedNotificationId,
                   lastCheckedPosts, actedOnPosts, batch>>
    /\ UNCHANGED <<exVars, authVars, postVars, loginVars, shareVars, lifeVars, ddVars>>

\* ---- the timeline feed ----

\* checkItems: no actions on a first fetch, afterwards the string
\* comparison post.id > lastKnownPostId.
shouldTakeActions(isFirstFetch, id, lastKnownPostId) ==
    IF isFirstFetch THEN FALSE
    ELSE StrGreater(Digits(id), Digits(lastKnownPostId))

\* this.lastCheckedPosts.set(username, posts[0].id)
nextWatermark(lastKnownPostId, posts) == posts[1]

\* Where checkItems continues after one user: the next user, or `finally`.
SearchAdvance(it) ==
    IF it.user < MaxUsers
    THEN [IdleIter EXCEPT !.pc = "fetching", !.user = it.user + 1, !.atStart = it.atStart]
    ELSE IdleIter

SearchTick ==
    /\ "search" \in started
    /\ ~checkItemsSkips(isProcessing["search"])
    /\ hist.ticks < MaxTicks
    /\ isProcessing' = [isProcessing EXCEPT !["search"] = TRUE]
    /\ iter' = [iter EXCEPT !["search"] =
                  [IdleIter EXCEPT !.pc = "fetching", !.user = 1,
                                   !.atStart = processedItems["search"] \cup memory]]
    /\ hist' = Enter(hist, "search")
    /\ UNCHANGED <<started, contentOf, processedItems, memory, lastCheckedNotificationId,
                   lastCheckedPosts, actedOnPosts, batch>>
    /\ UNCHANGED <<exVars, authVars, postVars, loginVars, shareVars, lifeVars, ddVars>>

\* getUserTimeline returns for the current user ([] on an error or an
\* unknown user): any post may come first; the order of the posts after the
\* first does not matter to the loop, they are taken newest first.  An empty
\* result moves on to the next user.
SearchFetch ==
    /\ iter["search"].pc = "fetching"
    /\ \E ids \in {a \in Arrangements(StatusIds) : a = <<>> \/ IsDescending(Tail(a))} :
         LET posts == [i \in 1..Len(ids) |-> [id |-> ids[i], content |-> contentOf[ids[i]]]]
             it == iter["search"]
             lastKnownPostId == lastCheckedPosts[it.user]
         IN  IF posts = <<>> THEN
                 /\ iter' = [iter EXCEPT !["search"] = SearchAdvance(it)]
                 /\ isProcessing' = IF it.user < MaxUsers THEN isProcessing
                                    ELSE Finally(isProcessing, "search")
                 /\ hist' = IF it.user < MaxUsers THEN hist ELSE Leave(hist, "search")
                 /\ UNCHANGED batch
             ELSE
                 /\ batch' = [batch EXCEPT !["search"] = posts]
                 /\ iter' = [iter EXCEPT !["search"].pc = "items",
                                         !["search"].first = (lastKnownPostId = 0),
                                         !["search"].lastKnown = lastKnownPostId,
                                         !["search"].fetched = ids,
                                         !["search"].executed = {},
                                         !["search"].created = {},
                                         !["search"].order = <<>>,
                                         !["search"].threw = FALSE]
                 /\ UNCHANGED <<isProcessing, hist>>
    /\ UNCHANGED <<started, contentOf, processedItems, memory, lastCheckedNotificationId,
                   lastCheckedPosts, actedOnPosts>>
    /\ UNCHANGED <<exVars, authVars, postVars, loginVars, shareVars, lifeVars, ddVars>>

\* processPost for the next post of the batch; every exception is caught
\* inside processPost.
SearchItem ==
    /\ iter["search"].pc = "items"
    /\ batch["search"] # <<>>
    /\ LET post == Head(batch["search"])
           id == post.id
           it == iter["search"]
           act == shouldTakeActions(it.first, id, it.lastKnown) /\ id \notin actedOnPosts
           rest == Tail(batch["search"])
       IN  /\ IF alreadyInMemory(memory, id) THEN
                  /\ processedItems' = [processedItems EXCEPT !["search"] = @ \cup {ItemKey(id)}]
                  /\ iter' = [iter EXCEPT !["search"] = Note(@, id, FALSE, "skipped_memory")]
                  /\ batch' = [batch EXCEPT !["search"] = AfterItem(rest, FALSE)]
                  /\ UNCHANGED <<memory, actedOnPosts>>
              ELSE
                  \/ \* composeState / generateTweetActions throws
                     /\ act
                     /\ iter' = [iter EXCEPT !["search"] = Note(@, id, FALSE, "decision_threw")]
                     /\ batch' = [batch EXCEPT !["search"] = AfterItem(rest, TRUE)]
                     /\ UNCHANGED <<processedItems, memory, actedOnPosts>>
                  \/ \E run \in FeedRuns(FALSE), create \in CreateOptions(post.content) :
                       LET res == IF act THEN SearchHandlePostActions(run.req, run.o)
                                  ELSE NoResult
                           stored == storeInMemory(post.content, create)
                           ownKey == IF stored = "stored" THEN {ItemKey(id)} ELSE {}
                       IN  /\ ~act => run.req = NoActions
                           /\ actedOnPosts' = IF act /\ res.executedActions # <<>>
                                              THEN actedOnPosts \cup {id} ELSE actedOnPosts
                           /\ memory' = memory \cup ownKey
                           /\ processedItems' = [processedItems EXCEPT !["search"] = @ \cup ownKey]
                           /\ iter' = [iter EXCEPT !["search"] = Note(@, id, act, stored)]
                           /\ batch' = [batch EXCEPT !["search"] =
                                          AfterItem(rest, stored = "threw")]
    /\ UNCHANGED <<started, contentOf, isProcessing, lastCheckedNotificationId,
                   lastCheckedPosts, hist>>
    /\ UNCHANGED <<exVars, authVars, postVars, loginVars, shareVars, lifeVars, ddVars>>

\* All posts of the user are processed: the watermark is set, then the
\* next user follows or `finally` clears the guard.
SearchUserDone ==
    /\ iter["search"].pc = "items"
    /\ batch["search"] = <<>>
    /\ LET it == iter["search"]
       IN  /\ lastCheckedPosts' = [lastCheckedPosts EXCEPT ![it.user] =
                                     nextWatermark(it.lastKnown, it.fetched)]
           /\ iter' = [iter EXCEPT !["search"] = SearchAdvance(it)]
           /\ isProcessing' = IF it.user < MaxUsers THEN isProcessing
                              ELSE Finally(isProcessing, "search")
           /\ hist' = IF it.user < MaxUsers THEN hist ELSE Leave(hist, "search")
    /\ UNCHANGED <<started, contentOf, processedItems, memory, lastCheckedNotificationId,
                   actedOnPosts, batch>>
    /\ UNCHANGED <<exVars, authVars, postVars, loginVars, shareVars, lifeVars, ddVars>>

\* The process ends and a new one starts: every field of the clients is
\* back at its initial value, the persisted memory is kept.  The restart is
\* taken between iterations: one that cuts an iteration short leaves the
\* memory of an iteration whose fetch returned only the items handled so far.
Restart ==
    /\ hist.restarts < MaxRestarts
    /\ \A c \in Clients : iter[c].pc = "idle"
    /\ isProcessing' = [c \in Clients |-> FALSE]
    /\ processedItems' = [c \in Clients |-> {}]
    /\ lastCheckedNotificationId' = 0
    /\ lastCheckedPosts' = [u \in Users |-> 0]
    /\ actedOnPosts' = {}
    /\ batch' = [c \in Clients |-> <<>>]
    /\ iter' = [c \in Clients |-> IdleIter]
    /\ hist' = [hist EXCEPT !.restarts = @ + 1,
                            !.exec = NoExec,
                            !.inflight = [c \in Clients |-> 0],
                            !.handledBefore = @ \cup {id \in DOMAIN hist.exec : hist.exec[id] > 0}]
    /\ UNCHANGED <<started, contentOf, memory>>
    /\ UNCHANGED <<exVars, authVars, postVars, loginVars, shareVars, lifeVars, ddVars>>

FeedNext ==
    \/ TickBusy
    \/ NotifTick
    \/ NotifFetch
    \/ NotifItem
    \/ NotifEnd
    \/ SearchTick
    \/ SearchFetch
    \/ SearchItem
    \/ SearchUserDone
    \/ Restart

(***************************************************************************)
(* Post scheduler (PostClient)                                             *)
(***************************************************************************)

\* Posts generated or queued in a behaviour.
MaxQueued == 3
\* Timer callbacks in a behaviour.
MaxPostTicks == 2
\* Calls of startPostingLoop, and of stopPostingLoop, in a behaviour.
MaxStarts == 1

PostIds == 1..MaxQueued
CallIds == 1..(MaxPostTicks + MaxStarts)
TimerIds == 1..MaxStarts

\* A call slot that holds no call.
IdleCall == [kind |-> "none", pc |-> "idle", post |-> 0, gens |-> 0, tried |-> 0,
             failed |-> FALSE]

\* The free slot a new call takes.
FreeCall == CHOOSE p \in CallIds :
                /\ calls[p].kind = "none"
                /\ \A q \in CallIds : calls[q].kind = "none" => p <= q

\* Array.prototype.push / shift / unshift on the outbox.
push(q, post) == Append(q, post)
shift(q) == IF q = <<>> THEN q ELSE Tail(q)
unshiftAtTail(q, post) == Append(q, post)
unshift(q, post) == <<post>> \o q

PostInit ==
    /\ postConfig \in [immediately : BOOLEAN, scheduled : BOOLEAN]
    /\ isPosting = FALSE
    /\ postQueue = <<>>
    /\ postInterval = 0
    /\ timers = {}
    /\ calls = [p \in CallIds |-> IdleCall]
    /\ postHist = [next |-> 0, posted |-> <<>>, ticks |-> 0, starts |-> 0, stops |-> 0,
                   requeued |-> 0]

\* startPostingLoop up to its first await: a loop that is running is left
\* alone; otherwise isPosting is set and the immediate path or the timer
\* set-up follows.
StartPostingLoop ==
    /\ postHist.starts < MaxStarts
    /\ \E p \in CallIds : calls[p].kind = "none"
    /\ postHist' = [postHist EXCEPT !.starts = @ + 1]
    /\ IF isPosting
       THEN UNCHANGED <<isPosting, calls>>
       ELSE /\ isPosting' = TRUE
            /\ calls' = [calls EXCEPT ![FreeCall] =
                            [IdleCall EXCEPT
                               !.kind = "start",
                               !.pc = IF postConfig.immediately THEN "generating" ELSE "arm"]]
    /\ UNCHANGED <<postConfig, postQueue, postInterval, timers>>
    /\ UNCHANGED <<exVars, authVars, feedVars, loginVars, shareVars, lifeVars, ddVars>>

\* The setInterval callback starts; the timer does not wait for the
\* callback before it.
PostTick ==
    /\ timers # {}
    /\ postHist.ticks < MaxPostTicks
    /\ \E p \in CallIds : calls[p].kind = "none"
    /\ calls' = [calls EXCEPT ![FreeCall] =
                    [IdleCall EXCEPT !.kind = "tick", !.pc = "generating"]]
    /\ postHist' = [postHist EXCEPT !.ticks = @ + 1]
    /\ UNCHANGED <<postConfig, isPosting, postQueue, postInterval, timers>>
    /\ UNCHANGED <<exVars, authVars, feedVars, loginVars, shareVars, lifeVars, ddVars>>

\* generateAndQueuePost: the generated post is pushed; a failure of the
\* generation is logged and queues nothing.
GenerateAndQueuePost(p) ==
    /\ calls[p].pc = "generating"
    /\ \E ok \in BOOLEAN :
          /\ ok => postHist.next < MaxQueued
          /\ IF ok
             THEN /\ postQueue' = push(postQueue, postHist.next + 1)
                  /\ postHist' = [postHist EXCEPT !.next = @ + 1]
             ELSE UNCHANGED <<postQueue, postHist>>
    /\ calls' = [calls EXCEPT
                   ![p].pc = IF calls[p].kind = "start" THEN "peek" ELSE "process",
                   ![p].gens = IF calls[p].kind = "start" THEN @ + 1 ELSE @]
    /\ UNCHANGED <<postConfig, isPosting, postInterval, timers>>
    /\ UNCHANGED <<exVars, authVars, feedVars, loginVars, shareVars, lifeVars, ddVars>>

\* queuePost called from outside the loop.
QueuePost ==
    /\ postHist.next < MaxQueued
    /\ postQueue' = push(postQueue, postHist.next + 1)
    /\ postHist' = [postHist EXCEPT !.next = @ + 1]
    /\ UNCHANGED <<postConfig, isPosting, postInterval, timers, calls>>
    /\ UNCHANGED <<exVars, authVars, feedVars, loginVars, shareVars, lifeVars, ddVars>>

\* The immediate path reads postQueue[0] and leaves it in the queue.
StartPeek(p) ==
    /\ calls[p].kind = "start" /\ calls[p].pc = "peek"
    /\ calls' = [calls EXCEPT ![p] =
                    IF postQueue = <<>>
                    THEN [@ EXCEPT !.pc = "arm"]
                    ELSE [@ EXCEPT !.pc = "creating", !.post = Head(postQueue),
                                   !.tried = @ + 1]]
    /\ UNCHANGED <<postConfig, isPosting, postQueue, postInterval, timers, postHist>>
    /\ UNCHANGED <<exVars, authVars, feedVars, loginVars, shareVars, lifeVars, ddVars>>

\* A startPostingLoop that lets the failure of its immediate post out.
StartFailedThrows(c) == IdleCall

\* catch (error) of the immediate path: the failure is logged and the timer
\* set-up follows.
StartFailed(c) == [c EXCEPT !.pc = "arm", !.failed = TRUE]

\* createPost of the immediate path returns or throws: after a success the
\* head of the queue is removed; a failure is logged.
StartCreated(p) ==
    /\ calls[p].kind = "start" /\ calls[p].pc = "creating"
    /\ \E ok \in BOOLEAN :
          IF ok
          THEN /\ postHist' = [postHist EXCEPT !.posted = Append(@, calls[p].post)]
               /\ postQueue' = shift(postQueue)
               /\ calls' = [calls EXCEPT ![p].pc = "arm"]
          ELSE /\ calls' = [calls EXCEPT ![p] = StartFailed(calls[p])]
               /\ UNCHANGED <<postQueue, postHist>>
    /\ UNCHANGED <<postConfig, isPosting, postInterval, timers>>
    /\ UNCHANGED <<exVars, authVars, feedVars, loginVars, shareVars, lifeVars, ddVars>>

\* The handle setInterval returns: that of no timer that is running.
NewTimer == CHOOSE t \in TimerIds : t \notin timers

\* The timer is created with the interval drawn here, once, and its handle
\* is kept; startPostingLoop returns. The callback that follows
\* processNextPost draws an interval for its log line alone: it sets no
\* timer and clears none.
StartArm(p) ==
    /\ calls[p].kind = "start" /\ calls[p].pc = "arm"
    /\ IF postConfig.scheduled
       THEN /\ postInterval' = NewTimer
            /\ timers' = timers \cup {NewTimer}
       ELSE UNCHANGED <<postInterval, timers>>
    /\ calls' = [calls EXCEPT ![p] = IdleCall]
    /\ UNCHANGED <<postConfig, isPosting, postQueue, postHist>>
    /\ UNCHANGED <<exVars, authVars, feedVars, loginVars, shareVars, lifeVars, ddVars>>

\* processNextPost up to its await: nothing when the loop is stopped or the
\* outbox is empty; otherwise the head is taken out and createPost is called.
ProcessNextPost(p) ==
    /\ calls[p].kind = "tick" /\ calls[p].pc = "process"
    /\ IF ~isPosting \/ postQueue = <<>>
       THEN /\ calls' = [calls EXCEPT ![p] = IdleCall]
            /\ UNCHANGED postQueue
       ELSE /\ calls' = [calls EXCEPT ![p].pc = "creating", ![p].post = Head(postQueue)]
            /\ postQueue' = shift(postQueue)
    /\ UNCHANGED <<postConfig, isPosting, postInterval, timers, postHist>>
    /\ UNCHANGED <<exVars, authVars, feedVars, loginVars, shareVars, lifeVars, ddVars>>

\* createPost of processNextPost returns or throws: a post that failed is
\* put back into the queue.
TickCreated(p) ==
    /\ calls[p].kind = "tick" /\ calls[p].pc = "creating"
    /\ \E ok \in BOOLEAN :
          IF ok
          THEN /\ postHist' = [postHist EXCEPT !.posted = Append(@, calls[p].post)]
               /\ UNCHANGED postQueue
          ELSE /\ postQueue' = unshift(postQueue, calls[p].post)
               /\ postHist' = [postHist EXCEPT !.requeued = calls[p].post]
    /\ calls' = [calls EXCEPT ![p] = IdleCall]
    /\ UNCHANGED <<postConfig, isPosting, postInterval, timers>>
    /\ UNCHANGED <<exVars, authVars, feedVars, loginVars, shareVars, lifeVars, ddVars>>

\* stopPostingLoop: the flag is cleared and the timer whose handle is kept
\* is cleared.
StopPostingLoop ==
    /\ postHist.stops < MaxStarts
    /\ isPosting' = FALSE
    /\ timers' = timers \ {postInterval}
    /\ postInterval' = 0
    /\ postHist' = [postHist EXCEPT !.stops = @ + 1]
    /\ UNCHANGED <<postConfig, postQueue, calls>>
    /\ UNCHANGED <<exVars, authVars, feedVars, loginVars, shareVars, lifeVars, ddVars>>

PostNext ==
    \/ StartPostingLoop
    \/ PostTick
    \/ QueuePost
    \/ StopPostingLoop
    \/ \E p \in CallIds :
          \/ GenerateAndQueuePost(p)
          \/ StartPeek(p)
          \/ StartCreated(p)
          \/ StartArm(p)
          \/ ProcessNextPost(p)
          \/ TickCreated(p)

(***************************************************************************)
(* One login()                                                             *)
(***************************************************************************)

\* The session fields login() can find: the supplied token is current only
\* where it is configured; the cache holds nothing or the token granted.
LoginInputs ==
    {x \in [s : [authToken : {NullToken, EnvToken, GrantToken(1)},
                 tokenCache : {NullToken, GrantToken(1)},
                 browser : BOOLEAN, nextToken : {2}, env : BOOLEAN],
            o : LoginOracles] :
        /\ x.s.authToken = EnvToken => x.s.env
        /\ Asked(x.s, x.o)}

\* login() has not run.
NoLoginResult ==
    [ok |-> FALSE, authToken |-> NullToken, tokenCache |-> NullToken, browser |-> FALSE,
     nextToken |-> 0, trace |-> <<>>,
     facts |-> [env |-> FALSE, setup |-> "ok", envOk |-> FALSE, cached |-> FALSE,
                cacheOk |-> FALSE]]

LoginRunInit ==
    /\ lgPc = "idle"
    /\ lgInput \in LoginInputs
    /\ lgResult = NoLoginResult

\* login() runs from the session fields of the input.
LoginRun ==
    /\ lgPc = "idle"
    /\ lgPc' = "done"
    /\ lgResult' = login(lgInput.s, lgInput.o)
    /\ UNCHANGED lgInput
    /\ UNCHANGED <<exVars, authVars, feedVars, postVars, shareVars, lifeVars, ddVars>>

(***************************************************************************)
(* Several client instances on the static session fields                   *)
(***************************************************************************)

Accounts == {"A", "B"}
Comps == {"c1", "c2"}
NoAccount == "none"

\* No call in progress.
IdleComp == [op |-> "none", pc |-> "idle", ctx |-> "none", retries |-> 0]

\* The client is inside login(), between its start and its return or throw.
InLogin(c) == comp[c].pc \in {"login_probe", "login_grant"}

SharedInit ==
    /\ accountOf \in [Comps -> Accounts]
    /\ sharedAuthToken = NoAccount
    /\ clientsRegistry = {}
    /\ cachedAccounts \in SUBSET Accounts
    /\ comp = [c \in Comps |-> IdleComp]
    /\ carried = {}

\* Where a call continues when init() returns or throws.
ShAfterInit(c, threw, token) ==
    IF comp[c].op = "init" \/ threw \/ token = NoAccount
    THEN IdleComp
    ELSE [comp[c] EXCEPT !.pc = "send", !.ctx = "none"]

\* A client instance starts init().
ShStartInit(c) ==
    /\ comp[c].pc = "idle"
    /\ comp' = [comp EXCEPT ![c] = [IdleComp EXCEPT !.op = "init", !.pc = "init_enter"]]
    /\ UNCHANGED <<accountOf, sharedAuthToken, clientsRegistry, cachedAccounts, carried>>
    /\ UNCHANGED <<exVars, authVars, feedVars, postVars, loginVars, lifeVars, ddVars>>

\* A client instance starts makeAuthenticatedRequest: without a token it
\* runs init().
ShMarCall(c) ==
    /\ comp[c].pc = "idle"
    /\ comp' = [comp EXCEPT ![c] =
                  [IdleComp EXCEPT !.op = "mar",
                                   !.pc = IF sharedAuthToken = NoAccount THEN "init_enter"
                                                                         ELSE "send"]]
    /\ UNCHANGED <<accountOf, sharedAuthToken, clientsRegistry, cachedAccounts, carried>>
    /\ UNCHANGED <<exVars, authVars, feedVars, postVars, loginVars, lifeVars, ddVars>>

\* init() up to the probe of the cached token or to the retry loop.
ShInitEnter(c) ==
    /\ comp[c].pc = "init_enter"
    /\ IF accountOf[c] \in clientsRegistry THEN
           /\ comp' = [comp EXCEPT ![c] = ShAfterInit(c, FALSE, sharedAuthToken)]
           /\ UNCHANGED sharedAuthToken
       ELSE IF accountOf[c] \in cachedAccounts THEN
           /\ sharedAuthToken' = accountOf[c]
           /\ comp' = [comp EXCEPT ![c].pc = "init_probe"]
       ELSE
           /\ comp' = [comp EXCEPT ![c].pc = "login_start", ![c].ctx = "init",
                                   ![c].retries = MaxRetryLimit]
           /\ UNCHANGED sharedAuthToken
    /\ UNCHANGED <<accountOf, clientsRegistry, cachedAccounts, carried>>
    /\ UNCHANGED <<exVars, authVars, feedVars, postVars, loginVars, lifeVars, ddVars>>

\* The probe of init() is answered.
ShInitProbe(c) ==
    /\ comp[c].pc = "init_probe"
    /\ \E valid \in BOOLEAN :
          IF valid
          THEN /\ clientsRegistry' = clientsRegistry \cup {accountOf[c]}
               /\ comp' = [comp EXCEPT ![c] = ShAfterInit(c, FALSE, sharedAuthToken)]
          ELSE /\ comp' = [comp EXCEPT ![c].pc = "login_start", ![c].ctx = "init",
                                       ![c].retries = MaxRetryLimit]
               /\ UNCHANGED clientsRegistry
    /\ UNCHANGED <<accountOf, sharedAuthToken, cachedAccounts, carried>>
    /\ UNCHANGED <<exVars, authVars, feedVars, postVars, loginVars, lifeVars, ddVars>>

\* login() up to its first request: the probe of the cached token, or the
\* password grant when nothing is cached.
ShLoginStart(c) ==
    /\ comp[c].pc = "login_start"
    /\ IF accountOf[c] \in cachedAccounts
       THEN /\ sharedAuthToken' = accountOf[c]
            /\ comp' = [comp EXCEPT ![c].pc = "login_probe"]
       ELSE /\ comp' = [comp EXCEPT ![c].pc = "login_grant"]
            /\ UNCHANGED sharedAuthToken
    /\ UNCHANGED <<accountOf, clientsRegistry, cachedAccounts, carried>>
    /\ UNCHANGED <<exVars, authVars, feedVars, postVars, loginVars, lifeVars, ddVars>>

\* Where the call continues when login() returns: init() registers the
\* client, makeAuthenticatedRequest calls itself.
ShLoginReturned(c, token) ==
    IF comp[c].ctx = "init" THEN ShAfterInit(c, FALSE, token)
    ELSE [comp[c] EXCEPT !.pc = IF token = NoAccount THEN "init_enter" ELSE "send",
                         !.ctx = "none"]

\* Where the call continues when login() throws: init() counts down and
\* tries again or throws; makeAuthenticatedRequest throws.
ShLoginThrew(c) ==
    IF comp[c].ctx = "init" /\ comp[c].retries > 1
    THEN [comp[c] EXCEPT !.pc = "login_start", !.retries = @ - 1]
    ELSE IdleComp

\* The probe of login() is answered.
ShLoginProbe(c) ==
    /\ comp[c].pc = "login_probe"
    /\ \E valid \in BOOLEAN :
          IF valid
          THEN /\ comp' = [comp EXCEPT ![c] = ShLoginReturned(c, sharedAuthToken)]
               /\ clientsRegistry' = IF comp[c].ctx = "init" /\ sharedAuthToken # NoAccount
                                     THEN clientsRegistry \cup {accountOf[c]}
                                     ELSE clientsRegistry
          ELSE /\ comp' = [comp EXCEPT ![c].pc = "login_grant"]
               /\ UNCHANGED clientsRegistry
    /\ UNCHANGED <<accountOf, sharedAuthToken, cachedAccounts, carried>>
    /\ UNCHANGED <<exVars, authVars, feedVars, postVars, loginVars, lifeVars, ddVars>>

\* The password grant is answered: the token issued for the account of the
\* client becomes the static token and is cached.
ShLoginGrant(c) ==
    /\ comp[c].pc = "login_grant"
    /\ \E ok \in BOOLEAN :
          IF ok
          THEN /\ sharedAuthToken' = accountOf[c]
               /\ cachedAccounts' = cachedAccounts \cup {accountOf[c]}
               /\ comp' = [comp EXCEPT ![c] = ShLoginReturned(c, accountOf[c])]
               /\ clientsRegistry' = IF comp[c].ctx = "init"
                                     THEN clientsRegistry \cup {accountOf[c]}
                                     ELSE clientsRegistry
          ELSE /\ comp' = [comp EXCEPT ![c] = ShLoginThrew(c)]
               /\ UNCHANGED <<sharedAuthToken, cachedAccounts, clientsRegistry>>
    /\ UNCHANGED <<accountOf, carried>>
    /\ UNCHANGED <<exVars, authVars, feedVars, postVars, loginVars, lifeVars, ddVars>>

\* The request is sent with the static token and answered: 2xx returns,
\* 401 goes to login(), anything else throws.
ShSend(c) ==
    /\ comp[c].pc = "send"
    /\ carried' = carried \cup {<<accountOf[c], sharedAuthToken>>}
    /\ \E status \in {200, 401, 500} :
          comp' = [comp EXCEPT ![c] =
                     IF status = 401
                     THEN [@ EXCEPT !.pc = "login_start", !.ctx = "relogin"]
                     ELSE IdleComp]
    /\ UNCHANGED <<accountOf, sharedAuthToken, clientsRegistry, cachedAccounts>>
    /\ UNCHANGED <<exVars, authVars, feedVars, postVars, loginVars, lifeVars, ddVars>>

SharedNext ==
    \E c \in Comps :
        \/ ShStartInit(c)
        \/ ShMarCall(c)
        \/ ShInitEnter(c)
        \/ ShInitProbe(c)
        \/ ShLoginStart(c)
        \/ ShLoginProbe(c)
        \/ ShLoginGrant(c)
        \/ ShSend(c)

ExecNext ==
    \/ ExecuteSearch
    \/ ExecuteNotification

(***************************************************************************)
(* Start and stop of the monitors (TruthSocialClient, BaseMonitorClient)   *)
(***************************************************************************)

\* The most items a fetch returns here.
MaxFetched == 1
\* The most timer ticks of the monitors in one behaviour.
MaxLifeTicks == 2
\* The depth of nested calls the call stack has room for.
MaxStack == 3

\* A monitor client before start(): no timer, no iteration.  start: where
\* its start() is; initial: the iteration is the one start() awaits;
\* watermark: lastCheckedPosts holds an id for the target user; cut: stop()
\* came while the fetch of the iteration was in flight; acted: the
\* iteration handed an item to the action executor; processed: processedItems
\* holds an id; stopRes: how the stop() or cleanup() called on the monitor
\* settled.
IdleMonitor ==
    [checkInterval |-> FALSE, isProcessing |-> FALSE, pc |-> "idle", items |-> 0,
     initial |-> FALSE, start |-> "none", watermark |-> FALSE, stopped |-> FALSE,
     cut |-> FALSE, acted |-> FALSE, processed |-> FALSE, stopRes |-> "none"]

\* tsStop: how TruthSocialClient.stop() settled.
LifeInit ==
    /\ tsStart = "idle"
    /\ monitor = [c \in Clients |-> IdleMonitor]
    /\ lifeHist = [ticks |-> 0, tsStop |-> "none"]

\* checkItems past its guard: the flag is set and the fetch is issued.
EnterCheck(m, byStart) ==
    [m EXCEPT !.isProcessing = TRUE, !.pc = "fetching", !.initial = byStart,
              !.cut = FALSE, !.acted = FALSE]

\* start() of a monitor up to its first await: the initial checkItems.
MonitorStart(m) == [EnterCheck(m, TRUE) EXCEPT !.start = "checking"]

\* `finally` of checkItems; the start() that awaited it goes on.
Finish(m) ==
    [m EXCEPT !.isProcessing = FALSE, !.pc = "idle", !.initial = FALSE,
              !.start = IF m.initial THEN "arming" ELSE @]

\* TruthSocialClient.start() up to its first await: start() of the search
\* client is called.
TsStart ==
    /\ tsStart = "idle"
    /\ tsStart' = "search"
    /\ monitor' = [monitor EXCEPT !["search"] = MonitorStart(@)]
    /\ UNCHANGED lifeHist
    /\ UNCHANGED <<exVars, authVars, feedVars, postVars, loginVars, shareVars, ddVars>>

\* `await this.searchClient.start()`: the call goes on when that start()
\* has returned.
TsAwaits(m) == m.start = "returned"

\* TruthSocialClient.start() after searchClient.start() returned: start()
\* of the notifications client is called; after that one returned, the call
\* returns.
TsNext ==
    /\ tsStart \in Clients
    /\ TsAwaits(monitor[tsStart])
    /\ IF tsStart = "search"
       THEN /\ tsStart' = "notifications"
            /\ monitor' = [monitor EXCEPT !["notifications"] = MonitorStart(@)]
       ELSE /\ tsStart' = "done"
            /\ UNCHANGED monitor
    /\ UNCHANGED lifeHist
    /\ UNCHANGED <<exVars, authVars, feedVars, postVars, loginVars, shareVars, ddVars>>

\* The request of the fetch never completes.
FetchHangs(c) ==
    /\ monitor[c].pc = "fetching"
    /\ monitor' = [monitor EXCEPT ![c].pc = "hung"]
    /\ UNCHANGED <<tsStart, lifeHist>>
    /\ UNCHANGED <<exVars, authVars, feedVars, postVars, loginVars, shareVars, ddVars>>

\* The fetch returns n items (none also when it failed): without items the
\* iteration ends, with items their handling begins.
AfterFetch(m, n) == IF n = 0 THEN Finish(m) ELSE [m EXCEPT !.pc = "acting", !.items = n]

FetchReturns(c) ==
    /\ monitor[c].pc = "fetching"
    /\ \E n \in 0..MaxFetched : monitor' = [monitor EXCEPT ![c] = AfterFetch(@, n)]
    /\ UNCHANGED <<tsStart, lifeHist>>
    /\ UNCHANGED <<exVars, authVars, feedVars, postVars, loginVars, shareVars, ddVars>>

\* One fetched item is handled: a notification goes to handleNotification,
\* a post of a target user is open to actions unless the fetch is the first
\* one for the user.  The id of the item enters processedItems.
MonitorItem(c) ==
    /\ monitor[c].pc = "acting"
    /\ monitor[c].items > 0
    /\ monitor' = [monitor EXCEPT
                     ![c].items = @ - 1,
                     ![c].acted = @ \/ c = "notifications" \/ monitor[c].watermark,
                     ![c].processed = TRUE]
    /\ UNCHANGED <<tsStart, lifeHist>>
    /\ UNCHANGED <<exVars, authVars, feedVars, postVars, loginVars, shareVars, ddVars>>

\* The items are through: the search client records the newest id, the flag
\* is cleared.
MonitorEnd(c) ==
    /\ monitor[c].pc = "acting"
    /\ monitor[c].items = 0
    /\ monitor' = [monitor EXCEPT ![c] = [Finish(@) EXCEPT !.watermark = TRUE]]
    /\ UNCHANGED <<tsStart, lifeHist>>
    /\ UNCHANGED <<exVars, authVars, feedVars, postVars, loginVars, shareVars, ddVars>>

\* start() of a monitor after its initial check: the timer is set and the
\* call returns.
MonitorArm(c) ==
    /\ monitor[c].start = "arming"
    /\ monitor' = [monitor EXCEPT ![c].checkInterval = TRUE, ![c].start = "returned"]
    /\ UNCHANGED <<tsStart, lifeHist>>
    /\ UNCHANGED <<exVars, authVars, feedVars, postVars, loginVars, shareVars, ddVars>>

\* The timer of a monitor fires: checkItems returns at once when the flag
\* is set and issues a fetch otherwise.
MonitorTick(c) ==
    /\ monitor[c].checkInterval
    /\ lifeHist.ticks < MaxLifeTicks
    /\ lifeHist' = [lifeHist EXCEPT !.ticks = @ + 1]
    /\ IF checkItemsSkips(monitor[c].isProcessing)
       THEN UNCHANGED monitor
       ELSE monitor' = [monitor EXCEPT ![c] = EnterCheck(@, FALSE)]
    /\ UNCHANGED tsStart
    /\ UNCHANGED <<exVars, authVars, feedVars, postVars, loginVars, shareVars, ddVars>>

RECURSIVE stop(_, _)
RECURSIVE cleanup(_, _)

\* stop() of a monitor, called at a depth of nested calls: the timer is
\* cleared and the handle dropped, then `await this.cleanup()` calls
\* cleanup(), which runs up to its own first await before stop() is
\* suspended.  A call the stack has no room for throws RangeError; the
\* promise of the async function that made the call is rejected with it.
stop(m, depth) ==
    IF depth > MaxStack THEN [m |-> m, threw |-> TRUE]
    ELSE cleanup([m EXCEPT !.checkInterval = FALSE], depth + 1)

\* cleanup() of a monitor: `await this.stop()` calls stop(); the set of
\* processed ids is cleared after that call has returned.
cleanup(m, depth) ==
    IF depth > MaxStack THEN [m |-> m, threw |-> TRUE]
    ELSE LET r == stop(m, depth + 1)
         IN  IF r.threw THEN r ELSE [r EXCEPT !.m.processed = FALSE]

\* The monitor after a stop() or cleanup() called from outside has settled
\* with r.  Nothing an iteration reads is written.
Settled(m, r) ==
    [r.m EXCEPT !.stopped = TRUE,
                !.cut = m.pc \in {"fetching", "hung"},
                !.stopRes = IF r.threw THEN "rejected" ELSE "returned"]

\* stop() of a monitor is called.
MonitorStop(c) ==
    /\ monitor[c].start # "none"
    /\ ~monitor[c].stopped
    /\ monitor' = [monitor EXCEPT ![c] = Settled(@, stop(@, 1))]
    /\ UNCHANGED <<tsStart, lifeHist>>
    /\ UNCHANGED <<exVars, authVars, feedVars, postVars, loginVars, shareVars, ddVars>>

\* cleanup() of a monitor is called.
MonitorCleanup(c) ==
    /\ monitor[c].start # "none"
    /\ ~monitor[c].stopped
    /\ monitor' = [monitor EXCEPT ![c] = Settled(@, cleanup(@, 1))]
    /\ UNCHANGED <<tsStart, lifeHist>>
    /\ UNCHANGED <<exVars, authVars, feedVars, postVars, loginVars, shareVars, ddVars>>

\* TruthSocialClient.stop() on a client whose start() has returned:
\* `await this.searchClient.stop()`, and after that call has returned
\* `await this.notificationsClient.stop()`; a rejected await rejects stop().
TsStop ==
    /\ tsStart = "done"
    /\ lifeHist.tsStop = "none"
    /\ \A c \in Clients : ~monitor[c].stopped
    /\ LET first == stop(monitor["search"], 1)
           second == stop(monitor["notifications"], 1)
       IN  IF first.threw
           THEN /\ monitor' = [monitor EXCEPT !["search"] = Settled(@, first)]
                /\ lifeHist' = [lifeHist EXCEPT !.tsStop = "rejected"]
           ELSE /\ monitor' = [c \in Clients |->
                                 Settled(monitor[c], IF c = "search" THEN first ELSE second)]
                /\ lifeHist' = [lifeHist EXCEPT
                                  !.tsStop = IF second.threw THEN "rejected" ELSE "returned"]
    /\ UNCHANGED tsStart
    /\ UNCHANGED <<exVars, authVars, feedVars, postVars, loginVars, shareVars, ddVars>>

LifeNext ==
    \/ TsStart
    \/ TsNext
    \/ \E c \in Clients :
          \/ FetchHangs(c)
          \/ FetchReturns(c)
          \/ MonitorItem(c)
          \/ MonitorEnd(c)
          \/ MonitorArm(c)
          \/ MonitorTick(c)
          \/ MonitorStop(c)
          \/ MonitorCleanup(c)
    \/ TsStop

(***************************************************************************)
(* Both feeds of one process on statuses and notifications that share ids  *)
(***************************************************************************)

\* Ids the platform has handed out, to notifications and to statuses alike
\* (two sequences of decimal strings).
MaxShared == 2

SharedIds == 1..MaxShared

\* The side-effecting actions on a status.
StatusActions == {"favourite", "reblog", "quote", "reply"}

\* The actions of an execution whose request was sent and answered 2xx.
AppliedActions(res, o) ==
    {f \in StatusActions :
        \/ f = "favourite" /\ "favourite" \in Range(res.requests) /\ o.favourite.ok
        \/ f = "reblog" /\ "reblog" \in Range(res.requests) /\ o.reblog.ok
        \/ f = "quote" /\ "status_quote" \in Range(res.requests) /\ o.quote.ok
        \/ f = "reply" /\ "status_reply" \in Range(res.requests) /\ o.reply.ok}

\* How often the platform received each action on each status: 0, 1, or 2
\* for "more than once".
NoEffects == [s \in SharedIds |-> [f \in StatusActions |-> 0]]

Received(effects, status, applied) ==
    [effects EXCEPT ![status] =
        [f \in StatusActions |-> IF f \in applied /\ @[f] < 2 THEN @[f] + 1 ELSE @[f]]]

\* refs: the status each notification refers to; processed: processedItems
\* of the notification client; acted: actedOnPosts of the timeline client;
\* memory: the keys of the records of the message manager; handled: the
\* notifications handleNotification was called for; last: the latest item a
\* loop took and what became of it.
DdInit ==
    dd \in [refs : [SharedIds -> SharedIds], processed : {{}}, acted : {{}},
            memory : {{}}, handled : {{}}, effects : {NoEffects},
            last : {[feed |-> "none", id |-> 0, outcome |-> "none"]}]

DdQuiet ==
    dd = [refs |-> [n \in SharedIds |-> n], processed |-> {}, acted |-> {}, memory |-> {},
          handled |-> {}, effects |-> NoEffects,
          last |-> [feed |-> "none", id |-> 0, outcome |-> "none"]]

Took(feed, id, outcome) == [feed |-> feed, id |-> id, outcome |-> outcome]

\* One turn of the for loop of NotificationsClient.checkItems for
\* notification n (a mention in the status refs[n]): the two dedup checks,
\* handleNotification with the action executor, the marking.
DdNotification(n) ==
    LET status == dd.refs[n]
    IN  /\ IF ItemKey(n) \in dd.processed THEN
               dd' = [dd EXCEPT !.last = Took("notifications", n, "skipped_processed")]
           ELSE IF alreadyInMemory(dd.memory, n) THEN
               dd' = [dd EXCEPT !.processed = @ \cup {ItemKey(n)},
                                !.last = Took("notifications", n, "skipped_memory")]
           ELSE
               \/ \* composeState / generateTweetActions throws
                  dd' = [dd EXCEPT !.handled = @ \cup {n},
                                   !.last = Took("notifications", n, "decision_threw")]
               \/ \E run \in FeedRuns(TRUE), create \in CreateOptions("text") :
                    LET res == executeNotificationActions("mention", TRUE, run.req,
                                                          "text", run.o)
                        execKeys == StoredKeys(res, status)
                        stored == storeInMemory("text", create)
                        ownKey == IF stored = "stored" THEN {ItemKey(n)} ELSE {}
                        marked == IF stored = "threw" THEN {} ELSE {ItemKey(n)}
                    IN  dd' = [dd EXCEPT
                                 !.memory = @ \cup execKeys \cup ownKey,
                                 !.processed = @ \cup execKeys \cup ownKey \cup marked,
                                 !.handled = @ \cup {n},
                                 !.effects = Received(@, status, AppliedActions(res, run.o)),
                                 !.last = Took("notifications", n, stored)]
        /\ UNCHANGED <<exVars, authVars, feedVars, postVars, loginVars, shareVars, lifeVars>>

\* SearchClient.processPost for status s of a target user; should: the
\* shouldTakeActions argument checkItems computed.
DdPost(s) ==
    /\ \E should \in BOOLEAN :
         LET act == should /\ s \notin dd.acted
         IN  IF alreadyInMemory(dd.memory, s) THEN
                 dd' = [dd EXCEPT !.last = Took("search", s, "skipped_memory")]
             ELSE
                 \/ \* composeState / generateTweetActions throws
                    /\ act
                    /\ dd' = [dd EXCEPT !.last = Took("search", s, "decision_threw")]
                 \/ \E run \in FeedRuns(FALSE), create \in CreateOptions("text") :
                      LET res == IF act THEN SearchHandlePostActions(run.req, run.o)
                                 ELSE NoResult
                          stored == storeInMemory("text", create)
                          ownKey == IF stored = "stored" THEN {ItemKey(s)} ELSE {}
                      IN  /\ ~act => run.req = NoActions
                          /\ dd' = [dd EXCEPT
                                      !.acted = IF act /\ res.executedActions # <<>>
                                                THEN @ \cup {s} ELSE @,
                                      !.memory = @ \cup ownKey,
                                      !.effects = Received(@, s, AppliedActions(res, run.o)),
                                      !.last = Took("search", s, stored)]
    /\ UNCHANGED <<exVars, authVars, feedVars, postVars, loginVars, shareVars, lifeVars>>

DdNext ==
    \E id \in SharedIds :
       \/ DdNotification(id)
       \/ DdPost(id)

(***************************************************************************)
(* Specifications                                                          *)
(***************************************************************************)

\* Values of the variables of the components a specification leaves alone.
ExecQuiet ==
    /\ exPc = "idle"
    /\ exInput = [kind |-> "search", ntype |-> "post", hasStatus |-> TRUE,
                  req |-> NoActions, content |-> "text"]
    /\ exResult = [res |-> NoResult, o |-> DefaultOracle]

AuthQuiet ==
    /\ authToken = NullToken
    /\ tokenCache = NullToken
    /\ nextToken = 1
    /\ registered = FALSE
    /\ browser = FALSE
    /\ config = [retryLimit |-> 0, env |-> FALSE]
    /\ rq = IdleRq

FeedQuiet ==
    /\ started = {}
    /\ contentOf = [st \in StatusIds |-> "text"]
    /\ isProcessing = [c \in Clients |-> FALSE]
    /\ processedItems = [c \in Clients |-> {}]
    /\ memory = {}
    /\ lastCheckedNotificationId = 0
    /\ lastCheckedPosts = [u \in Users |-> 0]
    /\ actedOnPosts = {}
    /\ batch = [c \in Clients |-> <<>>]
    /\ iter = [c \in Clients |-> IdleIter]
    /\ hist = [ticks |-> 0, restarts |-> 0, exec |-> NoExec, handledBefore |-> {},
               inflight |-> [c \in Clients |-> 0]]

PostQuiet ==
    /\ postConfig = [immediately |-> FALSE, scheduled |-> FALSE]
    /\ isPosting = FALSE
    /\ postQueue = <<>>
    /\ postInterval = 0
    /\ timers = {}
    /\ calls = [p \in CallIds |-> IdleCall]
    /\ postHist = [next |-> 0, posted |-> <<>>, ticks |-> 0, starts |-> 0, stops |-> 0,
                   requeued |-> 0]

LoginQuiet ==
    /\ lgPc = "done"
    /\ lgInput = [s |-> [authToken |-> NullToken, tokenCache |-> NullToken,
                         browser |-> FALSE, nextToken |-> 2, env |-> FALSE],
                  o |-> [browser |-> FALSE, envSetup |-> "ok", envProbe |-> TRUE,
                         cacheRead |-> "ok", cacheProbe |-> TRUE, grant |-> "rejected",
                         cacheWrite |-> "ok"]]
    /\ lgResult = NoLoginResult

SharedQuiet ==
    /\ accountOf = [c \in Comps |-> "A"]
    /\ sharedAuthToken = NoAccount
    /\ clientsRegistry = {}
    /\ cachedAccounts = {}
    /\ comp = [c \in Comps |-> IdleComp]
    /\ carried = {}

LifeQuiet ==
    /\ tsStart = "done"
    /\ monitor = [c \in Clients |-> IdleMonitor]
    /\ lifeHist = [ticks |-> 0, tsStop |-> "none"]

\* The action executor alone.
InitExec == ExecInit /\ AuthQuiet /\ FeedQuiet /\ PostQuiet /\ LoginQuiet /\ SharedQuiet /\ LifeQuiet /\ DdQuiet
SpecExec == InitExec /\ [][ExecNext]_vars

\* The session manager alone.
InitAuth == AuthInit /\ ExecQuiet /\ FeedQuiet /\ PostQuiet /\ LoginQuiet /\ SharedQuiet /\ LifeQuiet /\ DdQuiet
SpecAuth == InitAuth /\ [][AuthNext]_vars

\* One poll loop (the one started) with the dedup ledger and the memory.
InitFeeds == FeedInit /\ ExecQuiet /\ AuthQuiet /\ PostQuiet /\ LoginQuiet /\ SharedQuiet /\ LifeQuiet /\ DdQuiet
SpecFeeds == InitFeeds /\ [][FeedNext]_vars

\* The post scheduler alone.
InitPost == PostInit /\ ExecQuiet /\ AuthQuiet /\ FeedQuiet /\ LoginQuiet /\ SharedQuiet /\ LifeQuiet /\ DdQuiet
SpecPost == InitPost /\ [][PostNext]_vars

\* One login().
InitLogin == LoginRunInit /\ ExecQuiet /\ AuthQuiet /\ FeedQuiet /\ PostQuiet /\ SharedQuiet /\ LifeQuiet /\ DdQuiet
SpecLogin == InitLogin /\ [][LoginRun]_vars

\* Two client instances on the static session fields.
InitShared == SharedInit /\ ExecQuiet /\ AuthQuiet /\ FeedQuiet /\ PostQuiet /\ LoginQuiet /\ LifeQuiet /\ DdQuiet
SpecShared == InitShared /\ [][SharedNext]_vars

\* TruthSocialClient.start() and the stop() of its monitors.
InitLife ==
    LifeInit /\ ExecQuiet /\ AuthQuiet /\ FeedQuiet /\ PostQuiet /\ LoginQuiet /\ SharedQuiet
        /\ DdQuiet
SpecLife == InitLife /\ [][LifeNext]_vars

\* The notification feed and the timeline feed of one process on statuses
\* and notifications that share ids.
InitDedup ==
    DdInit /\ ExecQuiet /\ AuthQuiet /\ FeedQuiet /\ PostQuiet /\ LoginQuiet /\ SharedQuiet
        /\ LifeQuiet
SpecDedup == InitDedup /\ [][DdNext]_vars

Init ==
    /\ ExecInit /\ AuthInit /\ FeedInit /\ PostInit /\ LoginRunInit /\ SharedInit /\ LifeInit
    /\ DdInit
Next ==
    \/ ExecNext \/ AuthNext \/ FeedNext \/ PostNext \/ LoginRun \/ SharedNext \/ LifeNext
    \/ DdNext
Spec == Init /\ [][Next]_vars

(***************************************************************************)
(* Claims about the session manager (checked under SpecAuth)               *)
(***************************************************************************)

\* C1: when the first response of an authenticated request is HTTP 401 and
\* the retry sent after the re-login is answered 401 as well, the call ends
\* with an error: the request is not sent a third time and no second
\* re-login is run.
C1_NoThirdSendNoSecondRelogin ==
    (Len(rq.statuses) >= 2 /\ rq.statuses[1] = 401 /\ rq.statuses[2] = 401)
        => (rq.sends <= 2 /\ Len(rq.relogins) <= 1)

\* C2: a returned authenticated request whose first response was HTTP 401
\* (and whose re-login succeeded) has run exactly one login and has sent the
\* request exactly once more, with the credential that was current after
\* that login; if that retry was 2xx, its body is the result of the call.
C2_OneLoginOneRetry ==
    (/\ rq.pc = "done"
     /\ Len(rq.statuses) >= 1 /\ rq.statuses[1] = 401
     /\ Len(rq.relogins) >= 1 /\ rq.relogins[1].ok)
        => /\ Len(rq.relogins) = 1
           /\ rq.sends = 2
           /\ rq.carried[2] = rq.relogins[1].token
           /\ (rq.statuses[2] = 200 => rq.result = "data")

\* The init() call has ended after login attempts that all failed.
AllAttemptsFailed ==
    /\ rq.caller = "init" /\ rq.pc = "done"
    /\ rq.attempts # <<>>
    /\ \A i \in 1..Len(rq.attempts) : ~rq.attempts[i]

C21_UndecryptableIsAbsent ==
    /\ [][(rq.pc = "init_enter" /\ rq'.entry.unreadable)
              => /\ ~rq'.entry.cached
                 /\ rq'.pc = "init_loop" /\ rq'.retries = config.retryLimit
                 /\ rq'.probed = rq.probed
                 /\ UNCHANGED <<authToken, tokenCache, registered>>]_vars
    /\ []((rq.caller = "init" /\ rq.entry.unreadable /\ rq.pc = "done"
              /\ config.retryLimit >= 1)
             => rq.logins >= 1)

\* C21 witness: init() found a blob it could not decrypt and has ended
\* after a login attempt.
C21_Witness ==
    /\ rq.caller = "init" /\ rq.pc = "done"
    /\ rq.entry.unreadable
    /\ tokenCache # NullToken
    /\ rq.logins >= 1

\* C22: after the teardown of the session, in whatever state it was called
\* (also one in which the browser was never launched or failed to launch),
\* the teardown has returned without an error and the session holds neither
\* a credential nor a browser.
C22_TeardownClearsSession ==
    (rq.caller = "cleanup" /\ rq.pc = "done")
        => /\ rq.result = "returned"
           /\ authToken = NullToken
           /\ ~browser

\* C18: an init() that finds the account registered returns without a probe
\* and without a login, and leaves the credential and the registry as they
\* are; so does every init() after one that registered the session.
C18_RegisteredInitIsIdle ==
    /\ []((rq.caller = "init" /\ rq.entry.seen /\ rq.entry.registered)
              => /\ rq.pc = "done" /\ rq.result = "returned"
                 /\ ~rq.probed /\ ~rq.granted /\ rq.logins = 0
                 /\ registered)
    /\ [][(rq.pc = "init_enter" /\ registered)
              => UNCHANGED <<authToken, tokenCache, registered, nextToken>>]_vars

\* C18 witness: an init() after a successful one has returned, with the
\* credential of the first one still current.
C18_Witness ==
    /\ rq.caller = "init" /\ rq.pc = "done"
    /\ rq.entry.seen /\ rq.entry.registered
    /\ authToken # NullToken

\* C19: in init(), when a cached credential exists and the probe validates
\* it, it is the current credential, the session is registered and no
\* password grant is sent; login() runs in init() only when there is no
\* cached credential or the probe fails.
C19_CachedCredentialAdopted ==
    (rq.caller = "init" /\ rq.entry.seen /\ ~rq.entry.registered)
        => /\ (rq.entry.cached /\ rq.entry.probeOk)
                  => /\ rq.pc = "done" /\ rq.result = "returned"
                     /\ authToken = tokenCache /\ authToken # NullToken
                     /\ registered
                     /\ ~rq.granted /\ rq.logins = 0
           /\ rq.logins > 0 => (~rq.entry.cached \/ ~rq.entry.probeOk)

\* C19 witness: init() has returned on the cached credential.
C19_Witness ==
    /\ rq.caller = "init" /\ rq.pc = "done"
    /\ rq.entry.seen /\ rq.entry.cached /\ rq.entry.probeOk
    /\ registered

\* C38: whenever init() returns normally the session holds a credential,
\* for every retry limit (0 included) and also for an init() that runs after
\* the teardown of the session.
C38_InitReturnsWithCredential ==
    (rq.caller = "init" /\ rq.pc = "done" /\ rq.result = "returned")
        => authToken # NullToken

\* C39: whenever init() fails with the login-exhausted error the session
\* holds no credential and no session is registered for the account.
C39_ExhaustedLeavesNoCredential ==
    (rq.caller = "init" /\ rq.pc = "done" /\ rq.result = "error")
        => /\ authToken = NullToken
           /\ ~registered

(***************************************************************************)
(* Claims about the poll loops (checked under SpecFeeds)                   *)
(***************************************************************************)

\* C3: within one process lifetime the executor is invoked at most once for
\* each notification id, whatever throws during the iterations.
C3_ExecutorAtMostOncePerNotification ==
    "notifications" \in started => \A id \in NotifIds : hist.exec[id] <= 1

\* C4: an item whose id was in processedItems, or for which a memory record
\* existed, when the iteration began is neither handed to the executor nor
\* stored again by that iteration (both feeds).
C4_KnownItemsAreSkipped ==
    \A c \in Clients :
        \A id \in NotifIds \cup StatusIds :
            ItemKey(id) \in iter[c].atStart
                => /\ id \notin iter[c].executed
                   /\ id \notin iter[c].created

\* C4 witness: the timeline loop, after a restart, has passed over a post
\* whose memory record existed when the iteration began.
C4_Witness ==
    /\ hist.restarts > 0
    /\ iter["search"].pc = "items"
    /\ \E id \in Range(iter["search"].fetched) :
         /\ ItemKey(id) \in iter["search"].atStart
         /\ \A i \in 1..Len(batch["search"]) : batch["search"][i].id # id

\* C5: after a restart, a notification of any type that the executor handled
\* before the restart is not handed to the executor again.
C5_NoRepeatAfterRestart ==
    "notifications" \in started =>
        \A id \in hist.handledBefore \cap NotifIds : hist.exec[id] = 0

\* C6: lastCheckedPosts of a user is never replaced by an older id.
C6_WatermarkNeverRegresses ==
    [][\A u \in Users :
          (lastCheckedPosts[u] # 0 /\ lastCheckedPosts'[u] # 0)
              => lastCheckedPosts'[u] >= lastCheckedPosts[u]]_vars

\* C7: for a user without a watermark, when the loop over a fetch of N posts
\* is over, the N posts are in memory, the executor ran for none of them and
\* the watermark becomes the newest id of the N.
C7_FirstContact ==
    [][(/\ iter["search"].pc = "items"
        /\ batch["search"] = <<>>
        /\ iter["search"].first
        /\ hist'.restarts = hist.restarts)
           => LET it == iter["search"]
                  ids == Range(it.fetched)
              IN  /\ \A id \in ids : ItemKey(id) \in memory'
                  /\ it.executed \cap ids = {}
                  /\ \A id \in ids : lastCheckedPosts'[it.user] >= id
                  /\ lastCheckedPosts'[it.user] \in ids]_vars

\* C15: for each feed at most one iteration of checkItems is between its
\* guard-set point and its guard-clear point, and a timer tick that finds an
\* iteration of its feed in flight neither fetches nor acts: it leaves every
\* field of the client, the batch and the memory as they are.
C15_OneIterationPerFeed ==
    /\ [](\A c \in Clients : hist.inflight[c] <= 1)
    /\ [][(\E c \in started : isProcessing[c]) /\ hist'.ticks = hist.ticks + 1
            => UNCHANGED <<isProcessing, processedItems, memory, lastCheckedNotificationId,
                           lastCheckedPosts, actedOnPosts, batch, iter>>]_vars

\* C15 witness: a tick has come while an iteration was past its fetch; the
\* iteration is still the only one.
C15_Witness ==
    \E c \in started :
        /\ iter[c].pc = "items"
        /\ hist.inflight[c] = 1
        /\ hist.ticks = 2
        /\ hist.restarts = 0

\* The notification ids from the oldest to the newest.
OldestFirst == [i \in 1..MaxNotif |-> i]
NewestFirst == [i \in 1..MaxNotif |-> MaxNotif + 1 - i]

\* C11: when the notification fetch returns every notification newest first,
\* none of them known when the iteration began, and no handler throws, then
\* at the end of the loop the executor has been called for the notifications
\* from the oldest to the newest, one after the other, and processedItems
\* holds all of them.
C11_OldestFirst ==
    LET it == iter["notifications"]
    IN  (/\ it.pc = "items"
         /\ batch["notifications"] = <<>>
         /\ it.fetched = NewestFirst
         /\ \A n \in NotifIds : ItemKey(n) \notin it.atStart
         /\ ~it.threw)
            => /\ it.order = OldestFirst
               /\ \A n \in NotifIds : ItemKey(n) \in processedItems["notifications"]

\* C11 witness: such an iteration has reached the end of its loop.
C11_Witness ==
    /\ iter["notifications"].pc = "items"
    /\ batch["notifications"] = <<>>
    /\ iter["notifications"].fetched = NewestFirst
    /\ \A n \in NotifIds : ItemKey(n) \notin iter["notifications"].atStart
    /\ ~iter["notifications"].threw
    /\ iter["notifications"].order = OldestFirst

\* C30: on a fetch that is not the first one for the user, a post is
\* opened to actions exactly when its id is later than the watermark in the
\* order of the ids as numbers: a later post that is not in memory, was not
\* acted on before and whose handling does not throw is handed to the
\* executor, an earlier one never is; ids of different digit counts
\* included.
C30_NewIffLaterId ==
    [][(/\ iter["search"].pc = "items"
        /\ batch["search"] # <<>>
        /\ ~iter["search"].first
        /\ iter'["search"].pc = "items"
        /\ batch'["search"] = Tail(batch["search"]))
           => LET id == Head(batch["search"]).id
                  later == id > iter["search"].lastKnown
                  handed == id \in iter'["search"].executed
              IN  /\ handed => later
                  /\ (/\ later
                      /\ ItemKey(id) \notin memory
                      /\ id \notin actedOnPosts
                      /\ ~iter'["search"].threw) => handed]_vars

TickFetches(c) == IF c = "notifications" THEN NotifTick ELSE SearchTick

\* C33: every iteration of a feed that ends (normally, by the early return on
\* an empty fetch, or after an exception in the fetch or in the processing)
\* leaves the in-flight flag cleared: whenever no iteration of a feed is in
\* flight its flag is false, and the next timer tick of a started feed enters
\* checkItems and fetches again.
C33_FlagClearedAtEnd ==
    \A c \in Clients :
        iter[c].pc = "idle"
           => /\ ~isProcessing[c]
              /\ (c \in started /\ hist.ticks < MaxTicks) => ENABLED TickFetches(c)

\* A later iteration of the notification feed is fetching after an iteration
\* of the same process in which the handling of a notification threw after
\* the executor had run (the notification was never marked as processed).
C33_Witness ==
    /\ iter["notifications"].pc = "fetching"
    /\ isProcessing["notifications"]
    /\ \E id \in NotifIds :
         /\ hist.exec[id] > 0
         /\ ItemKey(id) \notin processedItems["notifications"]

\* A fetch for the current target user returns: without items (also when
\* it failed), or with items.
FetchEmpty == iter["search"].pc = "fetching" /\ iter'["search"].pc # "items"
FetchItems == iter["search"].pc = "fetching" /\ iter'["search"].pc = "items"

\* C40: for a target user a fetch that returns no items (or fails) records
\* no watermark, so that a later fetch that returns items while the user has
\* no watermark is a first contact, however many empty fetches came before:
\* its items are persisted and none of them is handed to the executor.
C40_EmptyFetchKeepsFirstContact ==
    [][/\ FetchEmpty => lastCheckedPosts' = lastCheckedPosts
       /\ (FetchItems /\ lastCheckedPosts[iter["search"].user] = 0) => iter'["search"].first
       /\ (iter["search"].pc = "items" /\ batch["search"] = <<>> /\ iter["search"].first)
            => \A id \in Range(iter["search"].fetched) :
                  /\ ItemKey(id) \in memory
                  /\ id \notin iter["search"].executed]_vars

\* The newest of the ids a fetch returned.
NewestOf(ids) == CHOOSE x \in Range(ids) : \A y \in Range(ids) : y <= x

\* C31: the watermark of a feed changes only in the step that ends the
\* handling of the items of a fetch, and then to the newest id the fetch
\* returned; the end of the loop over a fetch leaves the watermark at that
\* id, also when items were skipped or their handling threw.
C31_WatermarkAfterWholeFetch ==
    [][hist'.restarts = hist.restarts
         => /\ lastCheckedNotificationId' # lastCheckedNotificationId
                 => /\ batch'["notifications"] = <<>>
                    /\ lastCheckedNotificationId' = NewestOf(iter["notifications"].fetched)
            /\ \A u \in Users :
                 lastCheckedPosts'[u] # lastCheckedPosts[u]
                    => /\ batch'["search"] = <<>>
                       /\ lastCheckedPosts'[u] = NewestOf(iter["search"].fetched)
            /\ (iter["notifications"].pc = "items" /\ batch["notifications"] = <<>>)
                 => lastCheckedNotificationId' = NewestOf(iter["notifications"].fetched)
            /\ (iter["search"].pc = "items" /\ batch["search"] = <<>>)
                 => lastCheckedPosts'[iter["search"].user]
                       = NewestOf(iter["search"].fetched)]_vars

(***************************************************************************)
(* Claims about the action executor (checked under SpecExec)               *)
(***************************************************************************)

GroupNotFound == Response(404, "GROUP_NOT_FOUND")

\* Position of a tag in an order of the five actions.
RankFollowLast(tag) ==
    CASE tag = "FAVOURITE" -> 1 [] tag = "REBLOG" -> 2 [] tag = "QUOTE" -> 3
      [] tag = "REPLY" -> 4 [] tag = "FOLLOW_BACK" -> 5

RankFollowFirst(tag) ==
    CASE tag = "FOLLOW_BACK" -> 0 [] tag = "FAVOURITE" -> 1 [] tag = "REBLOG" -> 2
      [] tag = "QUOTE" -> 3 [] tag = "REPLY" -> 4

\* The post actions of the execution ran to their end: the item has a
\* status and no storeInMemory call of the executor threw.
PostActionsRan ==
    /\ exPc = "done"
    /\ exInput.hasStatus
    /\ ~(exInput.kind = "notification"
         /\ \/ storeInMemory(exInput.content, exResult.o.storeOrig) = "threw"
            \/ "status_quote" \in Range(exResult.res.requests)
                 /\ exResult.o.quote.ok /\ exResult.o.storeQuote = "throw"
            \/ "status_reply" \in Range(exResult.res.requests)
                 /\ exResult.o.reply.ok /\ exResult.o.storeReply = "throw")

\* C8: when the favourite request succeeds and the reblog request is
\* rejected with HTTP 404 and a group-not-found code, no quote and no reply
\* status-creation request is issued for the item, and the returned list
\* contains FAVOURITE.
C8_GroupRestrictionGating ==
    (/\ exPc = "done"
     /\ "favourite" \in Range(exResult.res.requests)
     /\ "reblog" \in Range(exResult.res.requests)
     /\ exResult.o.favourite.ok
     /\ exResult.o.reblog = GroupNotFound)
        => /\ "status_quote" \notin Range(exResult.res.requests)
           /\ "status_reply" \notin Range(exResult.res.requests)
           /\ "FAVOURITE" \in Range(exResult.res.executedActions)

C10_FailureIsolation ==
    LET req == exInput.req
        tried == Range(exResult.res.attempts)
        groupSignal ==
            \/ req.favourite /\ exResult.o.favourite = GroupNotFound
            \/ req.reblog /\ exResult.o.reblog = GroupNotFound
    IN  /\ (exPc = "done" /\ exInput.ntype = "follow" /\ req.follow_back)
               => "FOLLOW_BACK" \in tried
        /\ PostActionsRan =>
               /\ req.favourite => "FAVOURITE" \in tried
               /\ req.reblog => "REBLOG" \in tried
               /\ (req.quote /\ ~groupSignal) => "QUOTE" \in tried
               /\ (req.reply /\ ~groupSignal) => "REPLY" \in tried

\* C10 witness: the favourite failed with a non-group error and the reblog,
\* the quote and the reply were all attempted afterwards.
C10_Witness ==
    /\ exPc = "done"
    /\ exInput.kind = "search"
    /\ exResult.o.favourite = Response(500, "json")
    /\ exResult.res.attempts = <<"FAVOURITE", "REBLOG", "QUOTE", "REPLY">>
    /\ exResult.res.executedActions = <<"REBLOG", "QUOTE", "REPLY">>

\* The request an action sends, the field of the oracle that answers it and
\* the tag it is reported with.
RequestOf(f) ==
    CASE f = "favourite" -> "favourite" [] f = "reblog" -> "reblog"
      [] f = "quote" -> "status_quote" [] f = "reply" -> "status_reply"
      [] f = "follow_back" -> "follow"

AnswerOf(f, o) ==
    CASE f = "favourite" -> o.favourite [] f = "reblog" -> o.reblog
      [] f = "quote" -> o.quote [] f = "reply" -> o.reply
      [] f = "follow_back" -> o.follow

TagOf(f) ==
    CASE f = "favourite" -> "FAVOURITE" [] f = "reblog" -> "REBLOG"
      [] f = "quote" -> "QUOTE" [] f = "reply" -> "REPLY"
      [] f = "follow_back" -> "FOLLOW_BACK"

\* C28: the list the executor returns holds the tag of an action exactly
\* when the action was requested, its request was sent and the platform
\* answered it with success; no tag occurs twice.
C28_TagsAreAppliedActions ==
    exPc = "done" =>
        LET tags == exResult.res.executedActions
        IN  /\ \A f \in Flags :
                 TagOf(f) \in Range(tags)
                    <=> /\ exInput.req[f]
                        /\ RequestOf(f) \in Range(exResult.res.requests)
                        /\ AnswerOf(f, exResult.o).ok
            /\ \A i, j \in 1..Len(tags) : tags[i] = tags[j] => i = j

\* What the generation of the execution returned for a quote or a reply,
\* and the phrases the generator of the feed tests it for.
GeneratedFor(f) == IF f = "quote" THEN exResult.o.genQuote ELSE exResult.o.genReply

ListedPhrases ==
    IF exInput.kind = "search" THEN SearchModerationPhrases ELSE BaseModerationPhrases

\* C29: a status-creation request for a quote or a reply is sent only when
\* the action was requested and the generation returned a non-empty text
\* that holds no phrase of the generator's list, in whatever letter case;
\* without the request the tag of the action is not in the result, and a
\* quote left out this way does not keep a requested reply from being
\* attempted.
C29_GeneratedTextGatesRequest ==
    exPc = "done" =>
        /\ \A f \in {"quote", "reply"} :
              /\ RequestOf(f) \in Range(exResult.res.requests)
                    => /\ exInput.req[f]
                       /\ GeneratedFor(f) \notin {"empty", "throw"}
                       /\ Phrase(GeneratedFor(f)) \notin ListedPhrases
              /\ RequestOf(f) \notin Range(exResult.res.requests)
                    => TagOf(f) \notin Range(exResult.res.executedActions)
        /\ (/\ "QUOTE" \in Range(exResult.res.attempts)
            /\ "status_quote" \notin Range(exResult.res.requests)
            /\ exInput.req.reply)
              => "REPLY" \in Range(exResult.res.attempts)

\* C29 witness: the text generated for the quote holds a listed phrase in
\* another letter case; no quote is posted and the reply is.
C29_Witness ==
    /\ exPc = "done"
    /\ exInput.req.quote /\ exInput.req.reply
    /\ exResult.o.genQuote = "refusal_cased"
    /\ "QUOTE" \in Range(exResult.res.attempts)
    /\ "status_quote" \notin Range(exResult.res.requests)
    /\ "QUOTE" \notin Range(exResult.res.executedActions)
    /\ "REPLY" \in Range(exResult.res.executedActions)

(***************************************************************************)
(* Claims about the post scheduler (checked under SpecPost)                *)
(***************************************************************************)

\* A timer callback's createPost has thrown in this step.
FailedDrain(p) ==
    /\ calls[p].kind = "tick" /\ calls[p].pc = "creating"
    /\ calls'[p] = IdleCall
    /\ postHist'.posted = postHist.posted

\* C12: when a timer callback has taken the head entry of the outbox and
\* createPost throws, the entry is back in the outbox, once, and at its head
\* (neither discarded nor appended at the tail); an outbox that held only
\* that post when it was taken holds it at the head after the failed drain.
C12_RequeueAtHead ==
    [][\A p \in CallIds :
          FailedDrain(p)
              => /\ postQueue' # <<>>
                 /\ Head(postQueue') = calls[p].post
                 /\ Len(postQueue') = Len(postQueue) + 1
                 /\ \A i \in 2..Len(postQueue') : postQueue'[i] = postQueue[i - 1]]_vars

\* C12 witness: a failed drain has put its post back in front of a post
\* that was queued after it.
C12_Witness ==
    /\ postHist.requeued # 0
    /\ Len(postQueue) >= 2
    /\ Head(postQueue) = postHist.requeued
    /\ postHist.posted = <<>>

\* C13: the posts are made in the order in which they were queued: no post
\* is made while a post queued before it has not been made.
C13_PostedInQueueOrder ==
    \A i \in 1..Len(postHist.posted) :
        \A earlier \in 1..(postHist.posted[i] - 1) :
            \E j \in 1..(i - 1) : postHist.posted[j] = earlier

(***************************************************************************)
(* Claims about login() (checked under SpecLogin)                          *)
(***************************************************************************)

\* login() has run, with supplied cookies and token configured and the
\* browser set up.
EnvLoginRan == lgPc = "done" /\ lgInput.s.env /\ lgResult.browser

GrantSent == \E i \in 1..Len(lgResult.trace) : lgResult.trace[i] = "grant"

\* C20 as stated: supplied cookies and token are validated by the probe
\* before any password grant; no grant when the probe validates them, and
\* the password grant when it does not.
C20_EnvThenPassword ==
    EnvLoginRan
        => /\ lgResult.trace # <<>> /\ lgResult.trace[1] = "env_probe"
           /\ lgResult.facts.envOk => ~GrantSent
           /\ ~lgResult.facts.envOk => GrantSent

\* C20: once the browser is set up, supplied cookies and token that can be
\* installed are validated by the probe before any password grant; when the
\* probe validates them that probe is the only request; when it does not,
\* or they cannot be installed, the cached token is probed first, and the
\* password grant is sent only when there is no cached token or its probe
\* fails.
C20_EnvThenCacheThenPassword ==
    EnvLoginRan
        => LET t == lgResult.trace
               f == lgResult.facts
           IN  /\ lgInput.o.envSetup = "ok" => (t # <<>> /\ t[1] = "env_probe")
               /\ lgInput.o.envSetup # "ok" => \A i \in 1..Len(t) : t[i] # "env_probe"
               /\ f.envOk => t = <<"env_probe">>
               /\ (~f.envOk /\ f.cached)
                     => /\ \E i \in 1..Len(t) : t[i] = "cache_probe"
                        /\ GrantSent = ~f.cacheOk
               /\ (~f.envOk /\ ~f.cached) => GrantSent
               /\ GrantSent => t[Len(t)] = "grant"

\* C20 witness: the supplied token failed its probe and login() returned on
\* the cached token.
C20_Witness ==
    /\ EnvLoginRan
    /\ lgInput.o.envSetup = "ok"
    /\ ~lgResult.facts.envOk
    /\ lgResult.facts.cacheOk
    /\ lgResult.ok

(***************************************************************************)
(* Claims about client instances that share the static session fields      *)
(* (checked under SpecShared)                                              *)
(***************************************************************************)

\* C16: at most one login flow is in progress at any time.
C16_OneLoginFlow ==
    Cardinality({c \in Comps : InLogin(c)}) <= 1

\* C17: every authenticated request of a client carries a token issued for
\* the account of that client.
C17_TokenOfOwnAccount ==
    \A x \in carried : x[2] = x[1]

\* A request of the client was answered 401 and the login() that follows
\* has not read the cache yet.
AfterUnauthorized(c) == comp[c].ctx = "relogin" /\ comp[c].pc = "login_start"

\* C27: from the 401 of an authenticated call on, until its re-login sets a
\* token, the session holds no current token, so that no other request can
\* be sent with the one that was rejected.
C27_RejectedTokenDropped ==
    \A c \in Comps : AfterUnauthorized(c) => sharedAuthToken = NoAccount

(***************************************************************************)
(* Further claims about the post scheduler (checked under SpecPost)        *)
(***************************************************************************)

\* The callback of the post timer ends in this step.
CallbackEnds(p) ==
    /\ calls[p].kind = "tick"
    /\ calls'[p] = IdleCall

\* C23: the post timer is armed again, with an interval drawn then, when a
\* firing of it has run: the end of every callback of a running loop sets
\* a timer whose handle is kept.
C23_PeriodDrawnAnew ==
    [][\A p \in CallIds :
          (CallbackEnds(p) /\ isPosting /\ postInterval # 0)
             => /\ postInterval' # postInterval
                /\ postInterval' \in timers']_vars

\* A startPostingLoop call returns in this step.
StartReturns(p) ==
    /\ calls[p].kind = "start" /\ calls[p].pc = "arm"
    /\ calls'[p] = IdleCall

\* C24: with POST_IMMEDIATELY set, a startPostingLoop that set the loop
\* going has run the generation once and called createPost at most once,
\* and that call has ended, when the timer is armed and the call returns;
\* a failure of the generation or of createPost does not end the call: it
\* goes on to the timer set-up, and the timer is armed whenever the
\* intervals give one.
C24_ImmediatePostBeforeTimer ==
    /\ [][\A p \in CallIds :
             /\ (postConfig.immediately /\ StartReturns(p))
                   => /\ calls[p].gens = 1
                      /\ calls[p].tried <= 1
                      /\ (timers' # timers) = postConfig.scheduled
             /\ (calls[p].kind = "start" /\ calls[p].pc \in {"generating", "peek", "creating"})
                   => /\ calls'[p].kind = "start"
                      /\ calls'[p].pc \in {"generating", "peek", "creating", "arm"}
                      /\ calls'[p] # calls[p] => UNCHANGED <<timers, postInterval>>]_vars
    /\ [](\A p \in CallIds :
             (calls[p].kind = "start" /\ calls[p].pc = "arm" /\ postConfig.immediately)
                => calls[p].gens = 1 /\ calls[p].tried <= 1)

\* C24 witness: createPost of the immediate path has failed and the call is
\* at its timer set-up.
C24_Witness ==
    /\ postConfig.immediately /\ postConfig.scheduled
    /\ \E p \in CallIds :
          /\ calls[p].kind = "start" /\ calls[p].pc = "arm"
          /\ calls[p].tried = 1 /\ calls[p].failed
    /\ postHist.posted = <<>>

(***************************************************************************)
(* Claims about start and stop of the monitors (checked under SpecLife)    *)
(***************************************************************************)

\* A step of the start sequence: of TruthSocialClient.start() itself or of
\* the start() it awaits.
StartStep ==
    \/ TsStart
    \/ TsNext
    \/ \E c \in Clients :
          /\ c = tsStart
          /\ monitor[c].start # "returned"
          /\ FetchReturns(c) \/ MonitorItem(c) \/ MonitorEnd(c) \/ MonitorArm(c)

\* C25: a request of one monitor that never completes stalls that monitor
\* alone: every other monitor has been started (its initial check runs or
\* its start() is through) or the start sequence can still take a step,
\* also when the request is the one of the initial check of start().
C25_HangStallsOnlyItsFeed ==
    \A c \in Clients :
       monitor[c].pc = "hung"
          => \A d \in Clients \ {c} :
                \/ monitor[d].start # "none"
                \/ ENABLED StartStep

\* C26: when stop() of a monitor came while the fetch of an iteration was
\* in flight, that iteration hands none of the fetched items to the action
\* executor.
C26_NoActionAfterStop ==
    \A c \in Clients : ~(monitor[c].cut /\ monitor[c].acted)


\* C34: stopping the monitors terminates: a call of stop() or cleanup() of a
\* monitor returns with the timer handle of that feed cleared and its set of
\* processed ids emptied, and TruthSocialClient.stop() returns with the
\* timers of both feeds cleared, so that no iteration starts afterwards.
C34_StopReturnsAndClears ==
    [][/\ \A c \in Clients :
            (~monitor[c].stopped /\ monitor'[c].stopped)
               => /\ monitor'[c].stopRes = "returned"
                  /\ ~monitor'[c].checkInterval
                  /\ ~monitor'[c].processed
       /\ (lifeHist.tsStop = "none" /\ lifeHist'.tsStop # "none")
            => /\ lifeHist'.tsStop = "returned"
               /\ \A c \in Clients : ~monitor'[c].checkInterval
                                       /\ ~ENABLED MonitorTick(c)]_vars


\* C37: over any interleaving of startPostingLoop and stopPostingLoop calls
\* at most one posting timer is armed at any time, and a timer is armed only
\* while the posting-enabled flag is true.
C37_OneTimerOnlyWhilePosting ==
    /\ Cardinality(timers) <= 1
    /\ timers # {} => isPosting

(***************************************************************************)
(* Claims about actions and ids across the feeds (checked under SpecDedup) *)
(***************************************************************************)

\* C35: within one process lifetime no status receives the same
\* side-effecting action (favourite, reblog, quote or reply) more than once,
\* also when several notifications refer to the status or both feeds see it.
C35_EachActionOncePerStatus ==
    \A s \in SharedIds : \A f \in StatusActions : dd.effects[s][f] <= 1


\* The step is a turn of the notification loop that skips notification n as
\* already processed.
SkipsNotification(n) ==
    /\ dd' # dd
    /\ dd'.last.feed = "notifications"
    /\ dd'.last.id = n
    /\ dd'.last.outcome \in {"skipped_processed", "skipped_memory"}

\* C36: a notification is skipped as already processed only if a
\* notification with that id was handled before (which is what puts its id
\* into the processed set and its record into memory): the ids of statuses
\* recorded in the processed set or in memory never make the loop skip a
\* notification with the same id string that was not handled yet.
C36_SkipOnlyHandledNotification ==
    [][\A n \in SharedIds : SkipsNotification(n) => n \in dd.handled]_vars

====
